---------------------------- MODULE Spec2Model ----------------------------
(***************************************************************************)
(* A model of the ai_digest ingestion-to-digest pipeline:                  *)
(*   digest/sections.py    allocate_sections                               *)
(*   pipeline/ranking.py   rank_events, _assign_severity,                  *)
(*                         _compute_impact_score                           *)
(*   pipeline/dedupe.py    hard_dedupe, soft_dedupe_and_cluster,           *)
(*                         _title_similarity                               *)
(*   scheduler/jobs.py     fetch_source_job, pipeline_job                  *)
(*   digest/generator.py   generate_digest                                 *)
(*                                                                         *)
(* Python objects are records, lists are sequences, None is NoneId (for    *)
(* identifiers) or "none" (for labels).  Scores are in units of 1e-4.      *)
(***************************************************************************)
EXTENDS Integers, Sequences, FiniteSets, TLC

VARIABLES
    stage,          \* position of the stage under study, or the outcome of the last job
    evs,            \* the UpdateEvent objects: the list handed to a stage, or the
                    \* update_events table
    sections,       \* DigestSections returned by allocate_sections (lists of event ids)
    appended,       \* how many inputs the environment has supplied so far
    input,          \* what the last stage or job was handed
    now,            \* datetime.now(timezone.utc), in ticks
    clusters,       \* the Cluster rows (the clusters table), cluster_id = position
    raw_items,      \* the raw_items table, raw_item_id = position
    digests,        \* the digests table, digest_id = position
    jobs,           \* the fetch_source_job coroutines in flight, one per slot
    outbox,         \* the deliveries made so far: emails sent, pages published,
                    \* archive rebuilds
    snapshots       \* the snapshots table, oldest first

vars == <<stage, evs, sections, appended, input, now, clusters,
          raw_items, digests, jobs, outbox, snapshots>>

\* The tables, coroutines and deliveries the single-stage studies never touch.
store == <<raw_items, digests, jobs, outbox, snapshots>>

\* The slots of fetch_source_job coroutines, and a slot with no job in it.
JobSlots == {1, 2}

IdleJob ==
    [ pc |-> "idle", source_id |-> 0, items |-> <<>>, i |-> 0,
      pending |-> <<>>, rows_at_start |-> 0 ]

IdleJobs == [j \in JobSlots |-> IdleJob]

NoneId == 0
NoneTime == -1

\* Resolution of model time: ticks per second.
TicksPerSecond == 2
Hours(h) == h * 3600 * TicksPerSecond

Min(a, b) == IF a <= b THEN a ELSE b
Max(a, b) == IF a >= b THEN a ELSE b

Range(s) == {s[i] : i \in 1..Len(s)}

\* The element of a one-element set.  TheOnly({e(x) : x \in {v}}) is e(v) with
\* v computed once, as a local variable of the code is, however often e uses it.
TheOnly(S) == CHOOSE x \in S : TRUE

(***************************************************************************)
(* taxonomy.py                                                             *)
(***************************************************************************)
SECTION_DEVELOPER ==
    { "Deprecations/breaking changes",
      "SDK releases/updates",
      "API changes (endpoints/auth/schemas)",
      "Agents frameworks/orchestration",
      "Tool-use/function calling/integrations" }

SECTION_MODELS ==
    { "New foundation model release",
      "Model upgrade (quality/latency/context)",
      "New modality (vision/audio/video/3D)",
      "Fine-tuning/customization updates",
      "Inference & serving (speed/runtimes)",
      "Embeddings & reranking",
      "Evaluation/benchmarks/evals",
      "Open-source model/tool releases" }

SECTION_PRICING ==
    { "Pricing & billing changes",
      "Rate limits/quotas/tiers" }

SECTION_INCIDENTS ==
    { "Security incidents/vuln disclosures",
      "Reliability/outages/status updates" }

SECTION_QUOTAS ==
    [ top5 |-> 5, developer |-> 8, models |-> 8, pricing |-> 5,
      incidents |-> 5, radar |-> 3, everything_else |-> 0 ]

SectionNames ==
    <<"top5", "developer", "models", "pricing", "incidents", "radar",
      "everything_else">>

(***************************************************************************)
(* models/update_event.py: the fields of an UpdateEvent the stages use.    *)
(***************************************************************************)
\* None where a text is expected.
NoneText == <<"<None>">>

\* The text of an optional text, "" for None.
or_empty(text) == IF text = NoneText THEN <<>> ELSE text

UpdateEvent(id, title, cats, tier) ==
    [ event_id        |-> id,
      cluster_id      |-> NoneId,
      title           |-> title,
      categories      |-> cats,
      trust_tier      |-> tier,
      severity        |-> "LOW",
      breaking_change |-> FALSE,
      impact_score    |-> 0,
      published_at    |-> NoneTime,
      created_at      |-> 0,
      digest_id       |-> NoneId,
      digest_section  |-> "none",
      raw_item_id     |-> NoneId,
      source_id       |-> NoneId,
      company_slug    |-> "",
      product_line    |-> "",
      why_it_matters  |-> NoneText,
      summary_short   |-> NoneText,
      summary_medium  |-> NoneText ]

(***************************************************************************)
(* digest/sections.py                                                      *)
(***************************************************************************)
DigestSections ==
    [ top5 |-> <<>>, developer |-> <<>>, models |-> <<>>, pricing |-> <<>>,
      incidents |-> <<>>, radar |-> <<>>, everything_else |-> <<>> ]

total_count(s) ==
    Len(s.top5) + Len(s.developer) + Len(s.models) + Len(s.pricing)
    + Len(s.incidents) + Len(s.radar) + Len(s.everything_else)

\* RouteEvent with the radar branch forgetting assigned_ids.add(event.event_id).
RouteEvent_radar_not_assigned(st, event) ==
    LET cats == event.categories
        put(name) ==
            [ secs         |-> [st.secs EXCEPT ![name] = Append(@, event.event_id)],
              assigned_ids |-> IF name = "radar" THEN st.assigned_ids
                               ELSE st.assigned_ids \cup {event.event_id} ]
    IN  IF event.trust_tier = 4 /\ Len(st.secs.radar) < SECTION_QUOTAS.radar
            THEN put("radar")
        ELSE IF cats \cap SECTION_DEVELOPER # {}
                /\ Len(st.secs.developer) < SECTION_QUOTAS.developer
            THEN put("developer")
        ELSE IF cats \cap SECTION_MODELS # {}
                /\ Len(st.secs.models) < SECTION_QUOTAS.models
            THEN put("models")
        ELSE IF cats \cap SECTION_PRICING # {}
                /\ Len(st.secs.pricing) < SECTION_QUOTAS.pricing
            THEN put("pricing")
        ELSE IF cats \cap SECTION_INCIDENTS # {}
                /\ Len(st.secs.incidents) < SECTION_QUOTAS.incidents
            THEN put("incidents")
        ELSE st

\* RouteEvent with the quota tests off by one (<= for <).
RouteEvent_quota_off_by_one(st, event) ==
    LET cats == event.categories
        put(name) ==
            [ secs         |-> [st.secs EXCEPT ![name] = Append(@, event.event_id)],
              assigned_ids |-> st.assigned_ids \cup {event.event_id} ]
    IN  IF event.trust_tier = 4 /\ Len(st.secs.radar) <= SECTION_QUOTAS.radar
            THEN put("radar")
        ELSE IF cats \cap SECTION_DEVELOPER # {}
                /\ Len(st.secs.developer) <= SECTION_QUOTAS.developer
            THEN put("developer")
        ELSE IF cats \cap SECTION_MODELS # {}
                /\ Len(st.secs.models) <= SECTION_QUOTAS.models
            THEN put("models")
        ELSE IF cats \cap SECTION_PRICING # {}
                /\ Len(st.secs.pricing) <= SECTION_QUOTAS.pricing
            THEN put("pricing")
        ELSE IF cats \cap SECTION_INCIDENTS # {}
                /\ Len(st.secs.incidents) <= SECTION_QUOTAS.incidents
            THEN put("incidents")
        ELSE st

\* RouteEvent with the radar rule tried after the category rules.
RouteEvent_radar_last(st, event) ==
    LET cats == event.categories
        put(name) ==
            [ secs         |-> [st.secs EXCEPT ![name] = Append(@, event.event_id)],
              assigned_ids |-> st.assigned_ids \cup {event.event_id} ]
    IN  IF cats \cap SECTION_DEVELOPER # {}
                /\ Len(st.secs.developer) < SECTION_QUOTAS.developer
            THEN put("developer")
        ELSE IF cats \cap SECTION_MODELS # {}
                /\ Len(st.secs.models) < SECTION_QUOTAS.models
            THEN put("models")
        ELSE IF cats \cap SECTION_PRICING # {}
                /\ Len(st.secs.pricing) < SECTION_QUOTAS.pricing
            THEN put("pricing")
        ELSE IF cats \cap SECTION_INCIDENTS # {}
                /\ Len(st.secs.incidents) < SECTION_QUOTAS.incidents
            THEN put("incidents")
        ELSE IF event.trust_tier = 4 /\ Len(st.secs.radar) < SECTION_QUOTAS.radar
            THEN put("radar")
        ELSE st

\* One iteration of the routing loop: st = [secs, assigned_ids].
RouteEvent(st, event) ==
    LET cats == event.categories
        put(name) ==
            [ secs         |-> [st.secs EXCEPT ![name] = Append(@, event.event_id)],
              assigned_ids |-> st.assigned_ids \cup {event.event_id} ]
    IN  IF event.trust_tier = 4 /\ Len(st.secs.radar) < SECTION_QUOTAS.radar
            THEN put("radar")
        ELSE IF cats \cap SECTION_DEVELOPER # {}
                /\ Len(st.secs.developer) < SECTION_QUOTAS.developer
            THEN put("developer")
        ELSE IF cats \cap SECTION_MODELS # {}
                /\ Len(st.secs.models) < SECTION_QUOTAS.models
            THEN put("models")
        ELSE IF cats \cap SECTION_PRICING # {}
                /\ Len(st.secs.pricing) < SECTION_QUOTAS.pricing
            THEN put("pricing")
        ELSE IF cats \cap SECTION_INCIDENTS # {}
                /\ Len(st.secs.incidents) < SECTION_QUOTAS.incidents
            THEN put("incidents")
        ELSE st

\* The routing loop run from the last remaining event to the first.
RECURSIVE RouteRemaining_reversed(_, _)
RouteRemaining_reversed(remaining, st) ==
    IF remaining = <<>> THEN st
    ELSE RouteRemaining_reversed(SubSeq(remaining, 1, Len(remaining) - 1),
                                 RouteEvent(st, remaining[Len(remaining)]))

RECURSIVE RouteRemaining(_, _)
RouteRemaining(remaining, st) ==
    IF remaining = <<>> THEN st
    ELSE RouteRemaining(Tail(remaining), RouteEvent(st, Head(remaining)))

\* The DigestSections allocate_sections returns, as lists of event ids.
allocate_sections(events) ==
    IF events = <<>> THEN DigestSections
    ELSE
    LET top5      == SubSeq(events, 1, Min(SECTION_QUOTAS.top5, Len(events)))
        top5_ids  == [i \in 1..Len(top5) |-> top5[i].event_id]
        assigned0 == Range(top5_ids)
        remaining == SelectSeq(events, LAMBDA e : e.event_id \notin assigned0)
        routed    == RouteRemaining(remaining,
                        [ secs |-> [DigestSections EXCEPT !.top5 = top5_ids],
                          assigned_ids |-> assigned0 ])
        rest      == SelectSeq(events,
                        LAMBDA e : e.event_id \notin routed.assigned_ids)
    IN  [routed.secs EXCEPT
            !.everything_else = [i \in 1..Len(rest) |-> rest[i].event_id]]

\* The digest_section an event carries after the label loops, which write
\* top5, developer, models, pricing, incidents, radar, everything_else in
\* that order: the last section listing the event wins.
LabelAfter(secs, event) ==
    LET hits == {k \in 1..Len(SectionNames) :
                    event.event_id \in Range(secs[SectionNames[k]])}
    IN  IF hits = {} THEN event.digest_section
        ELSE SectionNames[CHOOSE k \in hits : \A m \in hits : m <= k]

set_digest_section(events, secs) ==
    [i \in 1..Len(events) |->
        [events[i] EXCEPT !.digest_section = LabelAfter(secs, events[i])]]

(***************************************************************************)
(* Inputs of the allocation study: a run of MaxPrefix or fewer events of   *)
(* one kind followed by up to MaxTail events of any kinds, ids distinct.   *)
(***************************************************************************)
MaxPrefix == 14
MaxTail == 3

AllocKinds ==
    { [trust_tier |-> 4, categories |-> {"SDK releases/updates"}],
      [trust_tier |-> 1, categories |-> {"SDK releases/updates",
                                         "Model upgrade (quality/latency/context)"}],
      [trust_tier |-> 1, categories |-> {"Embeddings & reranking"}],
      [trust_tier |-> 1, categories |-> {"Pricing & billing changes",
                                         "Reliability/outages/status updates"}],
      [trust_tier |-> 1, categories |-> {"Datasets (new/updated/licensing)"}] }

\* allocate_sections is handed events sorted by impact_score DESC (sections.py
\* 63, generator.py 71-74): the score falls with the position, in steps of
\* ScoreStep every second event, so that neighbours can tie.
ScoreStep == 500

AllocScore(id) == 10000 - ScoreStep * (id \div 2)

AllocEvent(id, kind) ==
    [UpdateEvent(id, <<>>, kind.categories, kind.trust_tier)
        EXCEPT !.impact_score = AllocScore(id)]

InitAlloc ==
    /\ stage = "input"
    /\ \E kind \in AllocKinds, p \in 0..MaxPrefix :
          evs = [i \in 1..p |-> AllocEvent(i, kind)]
    /\ sections = DigestSections
    /\ appended = 0
    /\ input = <<>>
    /\ now = 0
    /\ clusters = <<>>
    /\ raw_items = <<>>
    /\ digests = <<>>
    /\ jobs = IdleJobs
    /\ outbox = <<>>
    /\ snapshots = <<>>

AllocAppend ==
    /\ stage = "input"
    /\ appended < MaxTail
    /\ \E kind \in AllocKinds :
          evs' = Append(evs, AllocEvent(Len(evs) + 1, kind))
    /\ appended' = appended + 1
    /\ UNCHANGED <<stage, sections, input, now, clusters>>
    /\ UNCHANGED store

Allocate ==
    /\ stage = "input"
    /\ sections' = allocate_sections(evs)
    /\ evs' = set_digest_section(evs, sections')
    /\ stage' = "allocated"
    /\ input' = evs
    /\ UNCHANGED <<appended, now, clusters>>
    /\ UNCHANGED store

NextAlloc == AllocAppend \/ Allocate

SpecAlloc == InitAlloc /\ [][NextAlloc]_vars

(***************************************************************************)
(* Claims about allocate_sections (checked under SpecAlloc).               *)
(***************************************************************************)
\* How many times event id occurs in the lists of secs.
Occurrences(secs, id) ==
    LET occ(name) == Cardinality({i \in 1..Len(secs[name]) : secs[name][i] = id})
    IN  occ("top5") + occ("developer") + occ("models") + occ("pricing")
        + occ("incidents") + occ("radar") + occ("everything_else")

SectionsOf(secs, id) ==
    {k \in 1..Len(SectionNames) : id \in Range(secs[SectionNames[k]])}

DistinctIds(events) ==
    \A i, j \in 1..Len(events) :
        events[i].event_id = events[j].event_id => i = j

\* C1: for an input list with distinct ids, allocate_sections lists every
\* input event in exactly one of the seven sections (the section sizes sum
\* to N, nothing is lost, listed twice or invented), and afterwards each
\* event's digest_section is the name of the section that lists it.
C1_ExactlyOneSection ==
    (stage = "allocated" /\ DistinctIds(evs)) =>
        /\ total_count(sections) = Len(evs)
        /\ \A i \in 1..Len(evs) :
              /\ Occurrences(sections, evs[i].event_id) = 1
              /\ \E k \in SectionsOf(sections, evs[i].event_id) :
                    evs[i].digest_section = SectionNames[k]
        /\ \A k \in 1..Len(SectionNames) :
              \A id \in Range(sections[SectionNames[k]]) :
                  \E i \in 1..Len(evs) : evs[i].event_id = id

\* C1 witness: an allocation of at least seven events that used top5, radar,
\* a category section and everything_else.
C1_Witness ==
    /\ stage = "allocated"
    /\ Len(evs) >= 7
    /\ Len(sections.top5) = 5
    /\ sections.radar # <<>>
    /\ sections.developer # <<>>
    /\ sections.everything_else # <<>>

\* C2: top5 holds exactly min(5, N) events and no quota-limited section
\* exceeds its quota (developer 8, models 8, pricing 5, incidents 5, radar 3).
C2_Quotas ==
    stage = "allocated" =>
        /\ Len(sections.top5) = Min(5, Len(evs))
        /\ Len(sections.developer) <= 8
        /\ Len(sections.models) <= 8
        /\ Len(sections.pricing) <= 5
        /\ Len(sections.incidents) <= 5
        /\ Len(sections.radar) <= 3

\* C2 witness: radar and developer are both full and each turned an event
\* away: a tier-4 event sits outside top5 and radar, and a first-party
\* developer-category event sits in models.
C2_Witness ==
    /\ stage = "allocated"
    /\ Len(sections.radar) = 3
    /\ Len(sections.developer) = 8
    /\ \E i \in 1..Len(evs) :
          /\ evs[i].trust_tier = 4
          /\ evs[i].digest_section \notin {"top5", "radar"}
    /\ \E i \in 1..Len(evs) :
          /\ evs[i].trust_tier # 4
          /\ evs[i].categories \cap SECTION_DEVELOPER # {}
          /\ evs[i].digest_section = "models"

(***************************************************************************)
(* taxonomy.py: the 30-category taxonomy and the impact-score tables.      *)
(* Scores and weights are fixed-point: factors in units of 1e-4, weights   *)
(* in units of 1e-2.                                                       *)
(***************************************************************************)
CATEGORIES ==
    << "New foundation model release",
       "Model upgrade (quality/latency/context)",
       "New modality (vision/audio/video/3D)",
       "Fine-tuning/customization updates",
       "Inference & serving (speed/runtimes)",
       "Pricing & billing changes",
       "Rate limits/quotas/tiers",
       "Deprecations/breaking changes",
       "SDK releases/updates",
       "API changes (endpoints/auth/schemas)",
       "Agents frameworks/orchestration",
       "Tool-use/function calling/integrations",
       "RAG/retrieval tooling",
       "Embeddings & reranking",
       "Evaluation/benchmarks/evals",
       "Datasets (new/updated/licensing)",
       "Safety/alignment features",
       "Policy/compliance/governance",
       "Security incidents/vuln disclosures",
       "Privacy changes",
       "Open-source model/tool releases",
       "New developer products (dashboards/playgrounds)",
       "Enterprise features (SSO/RBAC/audit logs)",
       "Edge/on-device AI",
       "Hardware accelerators/drivers",
       "Training infrastructure/distributed systems",
       "LLMOps/monitoring/tracing",
       "App launches (consumer/prosumer)",
       "Funding/M&A/partnerships",
       "Reliability/outages/status updates" >>

ALWAYS_HIGH_CATEGORIES == {1}

IMPACT_WEIGHTS ==
    [ trust |-> 20, severity |-> 25, user_match |-> 15, recency |-> 15,
      breadth |-> 10, novelty |-> 10, spam_dupe_penalty |-> 5 ]

TRUST_SCORES == (1 :> 10000) @@ (2 :> 7000) @@ (3 :> 4000) @@ (4 :> 2000)

SEVERITY_SCORES == [HIGH |-> 10000, MEDIUM |-> 5000, LOW |-> 1500]

\* exp(-RECENCY_LAMBDA) and exp(RECENCY_LAMBDA) for one hour, in units of 1e-4.
DecayPerHourE4 == 9704
GrowthPerHourE4 == 10305
\* exp(-RECENCY_LAMBDA * h) is below 0.00005 from this many hours on.
DecayHorizonHours == 400

(***************************************************************************)
(* Titles are sequences of text fragments; str.lower() folds a fragment's  *)
(* case, and "kw in title_lower" holds when kw is one of the fragments.    *)
(***************************************************************************)
LowerFragment(f) ==
    CASE f = "Outage"   -> "outage"
      [] f = "Update"   -> "update"
      [] f = "Breaking" -> "breaking"
      [] f = "A"        -> "a"
      [] f = "B"        -> "b"
      [] f = "C"        -> "c"
      [] OTHER          -> f

lower(title) == [i \in 1..Len(title) |-> LowerFragment(title[i])]

(***************************************************************************)
(* pipeline/ranking.py                                                     *)
(***************************************************************************)
high_keywords ==
    { "outage", "breach", "security incident", "deprecat",
      "end of life", "major release", "breaking" }

medium_keywords ==
    { "new feature", "update", "release", "upgrade",
      "support", "launch", "available", "introduces" }

\* _assign_severity with the title keywords tested before the
\* breaking_change flag.
_assign_severity_keywords_first(event) ==
    LET cats        == event.categories
        cat_ids     == {id \in DOMAIN CATEGORIES : CATEGORIES[id] \in cats}
        title_lower == lower(event.title)
    IN  IF cat_ids \cap ALWAYS_HIGH_CATEGORIES # {} THEN "HIGH"
        ELSE IF \E kw \in high_keywords : kw \in Range(title_lower) THEN "HIGH"
        ELSE IF \E kw \in medium_keywords : kw \in Range(title_lower) THEN "MEDIUM"
        ELSE IF event.breaking_change THEN "HIGH"
        ELSE IF event.trust_tier = 1
                /\ cats \cap { "SDK releases/updates",
                               "API changes (endpoints/auth/schemas)" } # {}
            THEN "MEDIUM"
        ELSE "LOW"

_assign_severity(event) ==
    LET cats        == event.categories
        cat_ids     == {id \in DOMAIN CATEGORIES : CATEGORIES[id] \in cats}
        title_lower == lower(event.title)
    IN  IF cat_ids \cap ALWAYS_HIGH_CATEGORIES # {} THEN "HIGH"
        ELSE IF event.breaking_change THEN "HIGH"
        ELSE IF \E kw \in high_keywords : kw \in Range(title_lower) THEN "HIGH"
        ELSE IF \E kw \in medium_keywords : kw \in Range(title_lower) THEN "MEDIUM"
        ELSE IF event.trust_tier = 1
                /\ cats \cap { "SDK releases/updates",
                               "API changes (endpoints/auth/schemas)" } # {}
            THEN "MEDIUM"
        ELSE "LOW"

\* math.exp(-RECENCY_LAMBDA * h) in units of 1e-4, hour by hour.
RECURSIVE exp_decay(_)
exp_decay(h) ==
    IF h = 0 THEN 10000
    ELSE IF h > DecayHorizonHours THEN 0
    ELSE IF h > 0 THEN (exp_decay(h - 1) * DecayPerHourE4) \div 10000
    ELSE (exp_decay(h + 1) * GrowthPerHourE4) \div 10000

\* (now - published).total_seconds() / 3600, in whole hours.
hours_since(event, t) ==
    LET published == IF event.published_at # NoneTime THEN event.published_at
                     ELSE event.created_at
    IN  (t - published) \div (3600 * TicksPerSecond)

\* The weighted sum of _compute_impact_score, in units of 1e-6.
weighted_sum(event, hours_old) ==
    LET w        == IMPACT_WEIGHTS
        trust    == IF event.trust_tier \in DOMAIN TRUST_SCORES
                    THEN TRUST_SCORES[event.trust_tier] ELSE 2000
        severity == IF event.severity \in DOMAIN SEVERITY_SCORES
                    THEN SEVERITY_SCORES[event.severity] ELSE 1500
        user_match   == 5000
        recency      == exp_decay(hours_old)
        breadth      == 10000 \div 3
        novelty      == 10000
        spam_penalty == 0
    IN  w.trust * trust + w.severity * severity + w.user_match * user_match
        + w.recency * recency + w.breadth * breadth + w.novelty * novelty
        - w.spam_dupe_penalty * spam_penalty

\* round(x, 4) of a value in units of 1e-6, in units of 1e-4.
round4(x) == (x + 50) \div 100

\* _compute_impact_score without max(hours, 0) and without the final clamp.
_compute_impact_score_unclamped(event, t) ==
    round4(weighted_sum(event, hours_since(event, t)))

\* _compute_impact_score at time t (datetime.now), in units of 1e-4.
_compute_impact_score(event, t) ==
    LET hours_old == Max(hours_since(event, t), 0)
        score     == weighted_sum(event, hours_old)
    IN  round4(Min(Max(score, 0), 1000000))

\* list.sort(key=impact_score, reverse=True) done as sort-then-reverse:
\* equal scores come out in reverse input order.
RECURSIVE insert_desc_ties_reversed(_, _)
insert_desc_ties_reversed(sorted, e) ==
    IF sorted = <<>> THEN <<e>>
    ELSE IF Head(sorted).impact_score > e.impact_score
         THEN <<Head(sorted)>> \o insert_desc_ties_reversed(Tail(sorted), e)
         ELSE <<e>> \o sorted

\* Insert e after every element whose score is >= e's (stable, descending):
\* before the first element with a lower score, at the end when there is none.
insert_desc(sorted, e) ==
    TheOnly({
        IF below = {} THEN Append(sorted, e)
        ELSE TheOnly({ SubSeq(sorted, 1, p - 1) \o <<e>> \o SubSeq(sorted, p, Len(sorted)) :
                       p \in {CHOOSE k \in below : \A m \in below : k <= m} }) :
        below \in {{k \in 1..Len(sorted) : sorted[k].impact_score < e.impact_score}} })

\* events.sort(key=lambda e: e.impact_score, reverse=True): the events are
\* inserted into `sorted` one after another, from the first to the last.  The
\* list is taken in two halves, the second half inserted into what the
\* first half left, which is the same sequence of insertions.
RECURSIVE sort_desc(_, _)
sort_desc(events, sorted) ==
    IF events = <<>> THEN sorted
    ELSE IF Len(events) = 1 THEN insert_desc(sorted, events[1])
    ELSE TheOnly({
            TheOnly({ sort_desc(part.second, placed) :
                      placed \in {sort_desc(part.first, sorted)} }) :
            part \in {[first  |-> SubSeq(events, 1, Len(events) \div 2),
                       second |-> SubSeq(events, Len(events) \div 2 + 1, Len(events))]} })

rank_events(events, t) ==
    TheOnly({
        TheOnly({ sort_desc(scored, <<>>) :
                  scored \in {[i \in 1..Len(with_severity) |->
                      [with_severity[i] EXCEPT
                          !.impact_score = _compute_impact_score(with_severity[i], t)]]} }) :
        with_severity \in {[i \in 1..Len(events) |->
            [events[i] EXCEPT !.severity = _assign_severity(events[i])]]} })

(***************************************************************************)
(* Inputs of the ranking study: one event of any shape followed by up to   *)
(* MaxRankAppend events of a few shapes (repeats give equal scores).       *)
(***************************************************************************)
MaxRankAppend == 2

RankNow == Hours(100)

RankTitles ==
    { <<"Internal", "notes">>, <<"Major", "Outage">>, <<"SDK", "Update">>,
      <<"Update", "Breaking">> }

RankCategories ==
    { {}, {"New foundation model release"}, {"SDK releases/updates"},
      {"Datasets (new/updated/licensing)"} }

RankTiers == {1, 4, 7}

RankPublished == {NoneTime, RankNow - Hours(30), RankNow + Hours(48)}

RankSeverities == {"LOW", "HIGH", "CRITICAL"}

RankEvent(id, title, cats, tier, brk, pub, sev) ==
    [UpdateEvent(id, title, cats, tier) EXCEPT
        !.breaking_change = brk, !.published_at = pub, !.severity = sev,
        !.created_at = RankNow]

RankPalette(id) ==
    { RankEvent(id, <<"Internal", "notes">>, {}, 4, FALSE, NoneTime, "LOW"),
      RankEvent(id, <<"SDK", "Update">>, {"SDK releases/updates"}, 1, FALSE,
                RankNow - Hours(30), "LOW"),
      RankEvent(id, <<"Internal", "notes">>, {}, 2, TRUE, NoneTime, "LOW") }

InitRank ==
    /\ stage = "input"
    /\ \E title \in RankTitles, cats \in RankCategories, tier \in RankTiers,
          brk \in BOOLEAN, pub \in RankPublished, sev \in RankSeverities :
          evs = <<RankEvent(1, title, cats, tier, brk, pub, sev)>>
    /\ sections = DigestSections
    /\ appended = 0
    /\ input = <<>>
    /\ now = RankNow
    /\ clusters = <<>>
    /\ raw_items = <<>>
    /\ digests = <<>>
    /\ jobs = IdleJobs
    /\ outbox = <<>>
    /\ snapshots = <<>>

RankAppend ==
    /\ stage = "input"
    /\ appended < MaxRankAppend
    /\ \E e \in RankPalette(Len(evs) + 1) : evs' = Append(evs, e)
    /\ appended' = appended + 1
    /\ UNCHANGED <<stage, sections, input, now, clusters>>
    /\ UNCHANGED store

\* rank_events(events)
Rank ==
    /\ stage = "input"
    /\ evs' = rank_events(evs, now)
    /\ input' = evs
    /\ stage' = "ranked"
    /\ UNCHANGED <<sections, appended, now, clusters>>
    /\ UNCHANGED store

\* _compute_impact_score(event) on each event as it stands.
Score ==
    /\ stage = "input"
    /\ evs' = [i \in 1..Len(evs) |->
                [evs[i] EXCEPT !.impact_score = _compute_impact_score(evs[i], now)]]
    /\ input' = evs
    /\ stage' = "scored"
    /\ UNCHANGED <<sections, appended, now, clusters>>
    /\ UNCHANGED store

NextRank == RankAppend \/ Rank \/ Score

SpecRank == InitRank /\ [][NextRank]_vars

(***************************************************************************)
(* Claims about ranking (checked under SpecRank).                          *)
(***************************************************************************)
\* The events of a list apart from the two fields ranking writes.
Unranked(e) == [e EXCEPT !.severity = "LOW", !.impact_score = 0]

\* C8: rank_events returns a permutation of its input (each input event
\* once, only severity and impact_score rewritten), ordered by non-increasing
\* impact score, and events with equal scores keep their input order.
C8_SortedStable ==
    stage = "ranked" =>
        /\ Len(evs) = Len(input)
        /\ \A k \in 1..Len(input) :
              \E i \in 1..Len(evs) :
                  /\ evs[i].event_id = input[k].event_id
                  /\ Unranked(evs[i]) = Unranked(input[k])
        /\ \A i, j \in 1..Len(evs) :
              i < j => /\ evs[i].impact_score >= evs[j].impact_score
                       /\ evs[i].event_id # evs[j].event_id
                       /\ (evs[i].impact_score = evs[j].impact_score
                              => evs[i].event_id < evs[j].event_id)

\* C8 witness: a ranked list of three in which ranking moved an event
\* forward and two events tie.
C8_Witness ==
    /\ stage = "ranked"
    /\ Len(evs) = 3
    /\ \E i, j \in 1..3 : i < j /\ evs[i].event_id > evs[j].event_id
    /\ \E i, j \in 1..3 : i < j /\ evs[i].impact_score = evs[j].impact_score

HighSignal(e) == Range(lower(e.title)) \cap high_keywords # {}
MediumSignal(e) == Range(lower(e.title)) \cap medium_keywords # {}

\* C9: severity is HIGH for every event with the breaking-change flag or the
\* category "New foundation model release", whatever its title and tier;
\* otherwise high-signal keyword -> HIGH, else medium-signal keyword ->
\* MEDIUM, else tier 1 with an SDK or API-change category -> MEDIUM, else LOW.
C9_SeverityRules ==
    stage = "ranked" =>
        \A i \in 1..Len(evs) :
            LET e == evs[i] IN
            /\ (e.breaking_change \/ "New foundation model release" \in e.categories)
                  => e.severity = "HIGH"
            /\ (~e.breaking_change /\ "New foundation model release" \notin e.categories)
                  => /\ HighSignal(e) => e.severity = "HIGH"
                     /\ (~HighSignal(e) /\ MediumSignal(e)) => e.severity = "MEDIUM"
                     /\ (~HighSignal(e) /\ ~MediumSignal(e) /\ e.trust_tier = 1
                           /\ e.categories \cap {"SDK releases/updates",
                                  "API changes (endpoints/auth/schemas)"} # {})
                          => e.severity = "MEDIUM"
                     /\ (~HighSignal(e) /\ ~MediumSignal(e)
                           /\ ~(e.trust_tier = 1
                                /\ e.categories \cap {"SDK releases/updates",
                                       "API changes (endpoints/auth/schemas)"} # {}))
                          => e.severity = "LOW"

\* C9 witness: ranking graded a tier-4 breaking-change event whose title
\* carries only a medium-signal keyword HIGH.
C9_Witness ==
    /\ stage = "ranked"
    /\ \E i \in 1..Len(evs) :
          /\ evs[i].breaking_change
          /\ MediumSignal(evs[i]) /\ ~HighSignal(evs[i])
          /\ evs[i].trust_tier = 4
          /\ evs[i].severity = "HIGH"

\* C10: whatever the trust tier (also outside 1..4), the severity label and
\* the publish or creation time (also in the future), the impact score that
\* ranking computes lies in [0, 1] (0..10000 in units of 1e-4).
C10_ScoreInUnitInterval ==
    stage \in {"ranked", "scored"} =>
        \A i \in 1..Len(evs) :
            evs[i].impact_score >= 0 /\ evs[i].impact_score <= 10000

\* C10 witness: a score was computed for an event of a tier outside 1..4,
\* with a label outside the rubric and a publish time in the future.
C10_Witness ==
    /\ stage = "scored"
    /\ \E i \in 1..Len(evs) :
          /\ evs[i].trust_tier \notin 1..4
          /\ evs[i].severity \notin {"LOW", "MEDIUM", "HIGH"}
          /\ evs[i].published_at > now
          /\ evs[i].impact_score > 0

(***************************************************************************)
(* pipeline/dedupe.py: _title_similarity.  difflib.SequenceMatcher is      *)
(* computed as the library computes it (no junk; autojunk only concerns    *)
(* sequences of 200 elements or more): the longest matching block that     *)
(* starts earliest in a, then earliest in b, then the pieces to its left   *)
(* and to its right.  Ratios are in units of 1e-4.                         *)
(***************************************************************************)
SIMILARITY_THRESHOLD == 8500

IsSpace(f) == f = " "

\* str.strip()
RECURSIVE lstrip(_)
lstrip(t) == IF t # <<>> /\ IsSpace(Head(t)) THEN lstrip(Tail(t)) ELSE t

RECURSIVE rstrip(_)
rstrip(t) ==
    IF t # <<>> /\ IsSpace(t[Len(t)]) THEN rstrip(SubSeq(t, 1, Len(t) - 1)) ELSE t

strip(t) == rstrip(lstrip(t))

\* Length of the common run of a from i and b from j.
RECURSIVE run_length(_, _, _, _)
run_length(a, b, i, j) ==
    IF i > Len(a) \/ j > Len(b) \/ a[i] # b[j] THEN 0
    ELSE 1 + run_length(a, b, i + 1, j + 1)

\* SequenceMatcher.find_longest_match over all of a and b: [i, j, size].
find_longest_match(a, b) ==
    LET blocks == {[i |-> p[1], j |-> p[2], size |-> run_length(a, b, p[1], p[2])] :
                      p \in (1..Len(a)) \X (1..Len(b))}
    IN  CHOOSE m \in blocks :
            \A q \in blocks :
                \/ m.size > q.size
                \/ /\ m.size = q.size
                   /\ \/ m.i < q.i
                      \/ m.i = q.i /\ m.j <= q.j

\* Sum of the sizes of SequenceMatcher.get_matching_blocks().
RECURSIVE matches(_, _)
matches(a, b) ==
    IF a = <<>> \/ b = <<>> THEN 0
    ELSE CHOOSE n \in
            { IF m.size = 0 THEN 0
              ELSE m.size
                   + matches(SubSeq(a, 1, m.i - 1), SubSeq(b, 1, m.j - 1))
                   + matches(SubSeq(a, m.i + m.size, Len(a)),
                             SubSeq(b, m.j + m.size, Len(b))) :
              m \in {find_longest_match(a, b)} } : TRUE

\* SequenceMatcher(None, a, b).ratio() = 2.0 * matches / (len(a) + len(b))
ratio(a, b) == (2 * matches(a, b) * 10000) \div (Len(a) + Len(b))

_title_similarity(a, b) ==
    LET a_lower == strip(lower(a))
        b_lower == strip(lower(b))
    IN  IF a_lower = <<>> \/ b_lower = <<>> THEN 0
        ELSE ratio(a_lower, b_lower)

(***************************************************************************)
(* pipeline/dedupe.py: soft_dedupe_and_cluster                             *)
(***************************************************************************)
Cluster(id, canonical, members) ==
    [ cluster_id      |-> id,
      canonical_title |-> canonical.title,
      event_count     |-> Len(members) ]

\* The index lists of the groups of two or more, in the order the outer loop
\* closes them.
RECURSIVE build_clusters(_, _, _, _)
build_clusters(events, i, assigned, acc) ==
    IF i > Len(events) THEN acc
    ELSE IF i \in assigned THEN build_clusters(events, i + 1, assigned, acc)
    ELSE TheOnly({
             build_clusters(events, i + 1, assigned \cup Range(cluster),
                            IF Len(cluster) > 1 THEN Append(acc, cluster) ELSE acc) :
             cluster \in {<<i>> \o SelectSeq([k \in 1..(Len(events) - i) |-> i + k],
                              LAMBDA j : /\ j \notin assigned
                                         /\ _title_similarity(events[i].title,
                                                              events[j].title)
                                              >= SIMILARITY_THRESHOLD)} })

\* min(cluster_events, key=lambda e: e.trust_tier): the first of the lowest tier.
canonical_of(events, cluster_indices) ==
    LET best == CHOOSE k \in 1..Len(cluster_indices) :
                    /\ \A m \in 1..Len(cluster_indices) :
                          events[cluster_indices[k]].trust_tier
                              <= events[cluster_indices[m]].trust_tier
                    /\ \A m \in 1..(k - 1) :
                          events[cluster_indices[m]].trust_tier
                              > events[cluster_indices[k]].trust_tier
    IN  events[cluster_indices[best]]

\* soft_dedupe_and_cluster(events, db) with `rows` the Cluster rows so far:
\* the events with cluster_id set, and the rows with the new ones added.
soft_dedupe_and_cluster(events, rows) ==
    TheOnly({
        LET new_id(g) == Len(rows) + g
            group_of(i) == {g \in 1..Len(groups) : i \in Range(groups[g])}
        IN  [ events |-> [i \in 1..Len(events) |->
                            IF group_of(i) = {} THEN events[i]
                            ELSE [events[i] EXCEPT
                                    !.cluster_id =
                                        new_id(CHOOSE g \in group_of(i) : TRUE)]],
              rows   |-> rows \o [g \in 1..Len(groups) |->
                            Cluster(new_id(g), canonical_of(events, groups[g]),
                                    groups[g])] ] :
        groups \in {build_clusters(events, 1, {}, <<>>)} })

(***************************************************************************)
(* Inputs of the clustering study: lists of up to MaxClusterLen events     *)
(* with titles of a few letters; clustering may run a second time over the *)
(* list after more events joined it.                                       *)
(***************************************************************************)
MaxClusterLen == 3
MaxClusterRuns == 2

ClusterTitles ==
    { <<"a", "b", "a", "b">>,
      <<"a", "b", "c", "a", "b">>,
      <<"a", "c", "b", "a", "b">>,
      <<" ", "A", "B", "a", "b", " ">>,
      <<"x", "y">> }

ClusterTiers == {1, 4}

InitCluster ==
    /\ stage = "input"
    /\ evs = <<>>
    /\ sections = DigestSections
    /\ appended = 0
    /\ input = <<>>
    /\ now = 0
    /\ clusters = <<>>
    /\ raw_items = <<>>
    /\ digests = <<>>
    /\ jobs = IdleJobs
    /\ outbox = <<>>
    /\ snapshots = <<>>

ClusterAppend ==
    /\ stage \in {"input", "clustered"}
    /\ Len(evs) < MaxClusterLen
    /\ \E title \in ClusterTitles, tier \in ClusterTiers :
          evs' = Append(evs, UpdateEvent(Len(evs) + 1, title, {}, tier))
    /\ UNCHANGED <<stage, sections, appended, input, now, clusters>>
    /\ UNCHANGED store

\* soft_dedupe_and_cluster(events, db)
SoftDedupe ==
    /\ stage \in {"input", "clustered"}
    /\ appended < MaxClusterRuns
    /\ evs # <<>>
    /\ LET r == soft_dedupe_and_cluster(evs, clusters)
       IN  evs' = r.events /\ clusters' = r.rows
    /\ input' = evs
    /\ stage' = "clustered"
    /\ appended' = appended + 1
    /\ UNCHANGED <<sections, now>>
    /\ UNCHANGED store

NextCluster == ClusterAppend \/ SoftDedupe

SpecCluster == InitCluster /\ [][NextCluster]_vars

(***************************************************************************)
(* Claims about soft_dedupe_and_cluster (checked under SpecCluster).       *)
(***************************************************************************)
\* The list is as a run of soft_dedupe_and_cluster left it.
JustClustered == stage = "clustered" /\ Len(evs) = Len(input)

\* C5: after soft_dedupe_and_cluster ran on a list, any two of its events
\* whose title similarity is >= 0.85 carry the same non-null cluster
\* reference, for every list order and similarity relation.
C5_SimilarShareCluster ==
    JustClustered =>
        \A i, j \in 1..Len(evs) :
            (i # j /\ _title_similarity(evs[i].title, evs[j].title)
                        >= SIMILARITY_THRESHOLD)
                => /\ evs[i].cluster_id # NoneId
                   /\ evs[i].cluster_id = evs[j].cluster_id

\* C6: in every state reached by running soft_dedupe_and_cluster, no two
\* events whose titles have similarity < 0.5 share a cluster reference.
C6_DissimilarApart ==
    JustClustered =>
        \A i, j \in 1..Len(evs) :
            (i # j /\ _title_similarity(evs[i].title, evs[j].title) < 5000)
                => ~(evs[i].cluster_id # NoneId
                     /\ evs[i].cluster_id = evs[j].cluster_id)

(***************************************************************************)
(* models/source.py: the rows of the sources table the jobs read, and      *)
(* connectors/factory.py.                                                  *)
(***************************************************************************)
Sources ==
    << [ source_id |-> 1, enabled |-> TRUE, fetch_method |-> "rss",
         source_name |-> <<"x", " ", "blog">>, company_slug |-> "x",
         company_name |-> <<"x">>, product_line |-> "", trust_tier |-> 1 ],
       [ source_id |-> 2, enabled |-> TRUE, fetch_method |-> "github_releases",
         source_name |-> <<"y", " ", "releases">>, company_slug |-> "y",
         company_name |-> <<"y">>, product_line |-> "", trust_tier |-> 4 ],
       [ source_id |-> 3, enabled |-> FALSE, fetch_method |-> "rss",
         source_name |-> <<"x", " ", "status">>, company_slug |-> "x",
         company_name |-> <<"x">>, product_line |-> "", trust_tier |-> 2 ] >>

_CONNECTOR_MAP == {"rss", "html_diff", "github_releases", "api_poll", "social_api"}

(***************************************************************************)
(* connectors/base.py: RawItemData; models/raw_item.py: RawItem.           *)
(* A missing string (None) and the empty string are both <<>>: the code    *)
(* only tests them with "or".  A missing external_id is NoneExt.           *)
(***************************************************************************)
NoneExt == "none"

RawItemData(external_id, url, title, content_text) ==
    [ external_id  |-> external_id,
      url          |-> url,
      title        |-> title,
      content_text |-> content_text,
      published_at |-> NoneTime ]

\* sha256((url + (content_text or title or "")).encode()).hexdigest(): the
\* digest is written as its payload, so two digests are equal exactly when
\* the concatenated payloads are.
content_hash(item) ==
    <<"sha256">> \o item.url
        \o (IF item.content_text # <<>> THEN item.content_text ELSE item.title)

RawItem(source_id, item_data) ==
    [ raw_item_id  |-> NoneId,
      source_id    |-> source_id,
      external_id  |-> item_data.external_id,
      url          |-> item_data.url,
      title        |-> item_data.title,
      content_text |-> item_data.content_text,
      content_hash |-> content_hash(item_data),
      published_at |-> item_data.published_at,
      is_duplicate |-> FALSE ]

\* UniqueConstraint("source_id", "external_id"); NULLs never collide.
uq_raw_items_source_ext(rows) ==
    \A a, b \in 1..Len(rows) :
        (a < b /\ rows[a].source_id = rows[b].source_id
               /\ rows[a].external_id # NoneExt)
            => rows[a].external_id # rows[b].external_id

(***************************************************************************)
(* pipeline/dedupe.py: hard_dedupe; scheduler/jobs.py: fetch_source_job.   *)
(* The job runs in one session: a SELECT sees the committed rows and,      *)
(* because the session autoflushes before a query, the rows the job has    *)
(* added so far.  A flush that breaks the unique constraint raises and     *)
(* the session is closed without a commit.                                 *)
(***************************************************************************)
\* session_rows seeing only the rows of its own session.
session_rows_own_only(job, committed) == job.pending

session_rows(job, committed) == committed \o job.pending

hard_dedupe(hash, rows) ==
    \E k \in 1..Len(rows) : rows[k].content_hash = hash

\* One pass of the loop over items (lines 60-78).
process_candidate(job, committed) ==
    LET item_data == job.items[job.i]
        rows      == session_rows(job, committed)
    IN  IF ~uq_raw_items_source_ext(rows)
        THEN [job EXCEPT !.pc = "raised"]
        ELSE IF hard_dedupe(content_hash(item_data), rows)
        THEN [job EXCEPT !.i = @ + 1]
        ELSE [job EXCEPT !.i = @ + 1,
                         !.pending = Append(@, RawItem(job.source_id, item_data))]

\* db.commit(): the table after the job's flush and commit, unchanged when
\* the flush raises.
commit_rows(job, committed) ==
    IF uq_raw_items_source_ext(committed \o job.pending)
    THEN committed \o [k \in 1..Len(job.pending) |->
            [job.pending[k] EXCEPT !.raw_item_id = Len(committed) + k]]
    ELSE committed

\* The whole job run without interruption.
RECURSIVE run_fetch(_, _)
run_fetch(job, committed) ==
    IF job.pc = "raised" THEN committed
    ELSE IF job.i > Len(job.items) THEN commit_rows(job, committed)
    ELSE run_fetch(process_candidate(job, committed), committed)

StartedJob(source_id, items, committed) ==
    [ pc |-> "loop", source_id |-> source_id, items |-> items, i |-> 1,
      pending |-> <<>>, rows_at_start |-> Len(committed) ]

(***************************************************************************)
(* Fetch jobs of different sources interleaved at their awaits: up to      *)
(* MaxFetches jobs, each handed up to MaxItems candidates.                 *)
(***************************************************************************)
MaxFetches == 2
MaxItems == 2

Lists(S, n) == UNION {[1..m -> S] : m \in 0..n}

FetchCandidates ==
    { RawItemData("e1", <<"u">>, <<"a", "b">>, <<>>),
      RawItemData("e2", <<"u", "a">>, <<"b">>, <<>>),
      RawItemData("e1", <<"u">>, <<"a", "b">>, <<"c">>),
      RawItemData(NoneExt, <<"u">>, <<>>, <<"c">>) }

InitFetch ==
    /\ stage = "idle"
    /\ evs = <<>>
    /\ sections = DigestSections
    /\ appended = 0
    /\ input = <<>>
    /\ now = 0
    /\ clusters = <<>>
    /\ raw_items = <<>>
    /\ digests = <<>>
    /\ jobs = IdleJobs
    /\ outbox = <<>>
    /\ snapshots = <<>>

\* Lines 35-57: the source is read, the connector chosen and the items fetched.
FetchBegin(j, s, items) ==
    /\ jobs[j].pc = "idle"
    /\ appended < MaxFetches
    /\ Sources[s].enabled
    /\ Sources[s].fetch_method \in _CONNECTOR_MAP
    /\ jobs' = [jobs EXCEPT ![j] = StartedJob(s, items, raw_items)]
    /\ appended' = appended + 1
    /\ stage' = "fetch_started"
    /\ UNCHANGED <<evs, sections, input, now, clusters, raw_items, digests, outbox, snapshots>>

\* Lines 60-78, one item.
FetchItem(j) ==
    /\ jobs[j].pc = "loop"
    /\ jobs[j].i <= Len(jobs[j].items)
    /\ LET after == process_candidate(jobs[j], raw_items)
       IN  IF after.pc = "raised"
           THEN jobs' = [jobs EXCEPT ![j] = IdleJob] /\ stage' = "fetch_raised"
           ELSE jobs' = [jobs EXCEPT ![j] = after] /\ stage' = "fetch_item"
    /\ UNCHANGED <<evs, sections, appended, input, now, clusters, raw_items, digests, outbox, snapshots>>

\* Lines 80-91.
FetchCommit(j) ==
    /\ jobs[j].pc = "loop"
    /\ jobs[j].i > Len(jobs[j].items)
    /\ raw_items' = commit_rows(jobs[j], raw_items)
    /\ stage' = IF uq_raw_items_source_ext(raw_items \o jobs[j].pending)
                THEN "fetch_committed" ELSE "fetch_raised"
    /\ jobs' = [jobs EXCEPT ![j] = IdleJob]
    /\ UNCHANGED <<evs, sections, appended, input, now, clusters, digests, outbox, snapshots>>

NextFetch ==
    \/ \E j \in JobSlots, s \in 1..Len(Sources),
          items \in Lists(FetchCandidates, MaxItems) : FetchBegin(j, s, items)
    \/ \E j \in JobSlots : FetchItem(j)
    \/ \E j \in JobSlots : FetchCommit(j)

SpecFetch == InitFetch /\ [][NextFetch]_vars

(***************************************************************************)
(* Claims about hard_dedupe and fetch_source_job (checked under SpecFetch).*)
(***************************************************************************)
\* The rows that were persisted when the job started.
PersistedBefore(job) == SubSeq(raw_items, 1, job.rows_at_start)

\* C4: once a RawItem with content hash h is persisted, hard_dedupe(h) is true
\* on every later call (from any session, and the rows it reads stay as
\* they are), and no fetch job started later, for the same or another
\* source, adds a RawItem with hash h.
C4_PersistedHashStaysDeduped ==
    /\ [](\A j \in JobSlots :
            /\ \A k \in 1..Len(raw_items) :
                  hard_dedupe(raw_items[k].content_hash,
                              session_rows(jobs[j], raw_items))
            /\ \A p \in 1..Len(jobs[j].pending) :
                  ~hard_dedupe(jobs[j].pending[p].content_hash,
                               PersistedBefore(jobs[j])))
    /\ [][\A k \in 1..Len(raw_items) :
            Len(raw_items') >= k /\ raw_items'[k] = raw_items[k]]_vars

\* A job started after a row of another source was persisted has met a
\* candidate with that row's hash, under another external id, and skipped it.
C4_Witness ==
    \E j \in JobSlots :
        /\ jobs[j].pc = "loop"
        /\ \E c \in 1..(jobs[j].i - 1), k \in 1..jobs[j].rows_at_start :
              /\ content_hash(jobs[j].items[c]) = raw_items[k].content_hash
              /\ raw_items[k].source_id # jobs[j].source_id
              /\ raw_items[k].external_id # jobs[j].items[c].external_id
              /\ \A p \in 1..Len(jobs[j].pending) :
                    jobs[j].pending[p].content_hash # raw_items[k].content_hash

(***************************************************************************)
(* Text helpers of pipeline/normalize.py and digest/generator.py.  A text  *)
(* is a sequence of fragments: single characters, and whole words for the  *)
(* vocabulary the code looks for.                                          *)
(***************************************************************************)
WordLength ==
    [ Outage |-> 6, outage |-> 6, Update |-> 6, update |-> 6,
      Breaking |-> 8, breaking |-> 8, updates |-> 7, community |-> 9,
      announcement |-> 12, announcements |-> 13, blog |-> 4,
      releases |-> 8, status |-> 6 ]

IsWord(f) == f \in DOMAIN WordLength
IsLetter(f) == f \in {"a", "b", "c", "x", "y", "u", "A", "B", "C"}
IsDigit(f) == f \in {"0", "1", "2"}
IsTag(f) == f \in {"<b>", "</b>", "<p>", "</p>"}

\* len(text)
RECURSIVE CharCount(_)
CharCount(t) ==
    IF t = <<>> THEN 0
    ELSE (IF IsWord(Head(t)) THEN WordLength[Head(t)] ELSE 1) + CharCount(Tail(t))

\* text[:n]
RECURSIVE take_chars(_, _)
take_chars(t, n) ==
    IF t = <<>> \/ CharCount(<<Head(t)>>) > n THEN <<>>
    ELSE <<Head(t)>> \o take_chars(Tail(t), n - CharCount(<<Head(t)>>))

\* re.sub(r"\s+", " ", text)
RECURSIVE collapse_spaces(_)
collapse_spaces(t) ==
    IF t = <<>> THEN <<>>
    ELSE IF IsSpace(Head(t))
    THEN <<" ">> \o collapse_spaces(lstrip(t))
    ELSE <<Head(t)>> \o collapse_spaces(Tail(t))

\* str.split()
RECURSIVE split(_)
split(t) ==
    LET s == lstrip(t)
    IN  IF s = <<>> THEN <<>>
        ELSE LET spaces == {k \in 1..Len(s) : IsSpace(s[k])}
                 stop   == IF spaces = {} THEN Len(s) + 1
                           ELSE CHOOSE k \in spaces : \A m \in spaces : k <= m
             IN  <<SubSeq(s, 1, stop - 1)>> \o split(SubSeq(s, stop, Len(s)))

\* _ALPHA_RE.search(word): two letters in a row.
has_alpha_run(w) ==
    \E k \in 1..Len(w) :
        \/ IsWord(w[k])
        \/ k < Len(w) /\ IsLetter(w[k]) /\ IsLetter(w[k + 1])

alpha_words(words) == Cardinality({k \in 1..Len(words) : has_alpha_run(words[k])})

\* normalize.py _is_readable: alpha_words / len(words) > 0.3
_is_readable(text, min_words) ==
    LET words == split(text)
    IN  /\ Len(words) >= min_words
        /\ Len(words) > 0
        /\ 10 * alpha_words(words) > 3 * Len(words)

\* _TAG_RE.sub(" ", text), whitespace collapsed, stripped.
_strip_markup(text) ==
    strip(collapse_spaces([k \in 1..Len(text) |->
                              IF IsTag(text[k]) THEN " " ELSE text[k]]))

\* _REPO_RE = ([\w.-]+)\s*/\s*([\w.-]+): the leftmost "owner/name".
IsRepoChar(f) == IsWord(f) \/ IsLetter(f) \/ IsDigit(f) \/ f \in {"_", ".", "-"}

_extract_repo_title(text) ==
    LET before(k) == {m \in 1..(k - 1) :
                        /\ IsRepoChar(text[m])
                        /\ \A n \in (m + 1)..(k - 1) : IsSpace(text[n])}
        after(k)  == {m \in (k + 1)..Len(text) :
                        /\ IsRepoChar(text[m])
                        /\ \A n \in (k + 1)..(m - 1) : IsSpace(text[n])}
        slashes   == {k \in 1..Len(text) :
                        text[k] = "/" /\ before(k) # {} /\ after(k) # {}}
    IN  IF slashes = {} THEN <<>>
        ELSE LET k  == CHOOSE k \in slashes : \A m \in slashes : k <= m
                 le == CHOOSE m \in before(k) : TRUE
                 rs == CHOOSE m \in after(k) : TRUE
                 ls == CHOOSE m \in 1..le :
                          /\ \A n \in m..le : IsRepoChar(text[n])
                          /\ (m = 1 \/ ~IsRepoChar(text[m - 1]))
                 re == CHOOSE m \in rs..Len(text) :
                          /\ \A n \in rs..m : IsRepoChar(text[n])
                          /\ (m = Len(text) \/ ~IsRepoChar(text[m + 1]))
             IN  SubSeq(text, ls, le) \o <<"/">> \o SubSeq(text, rs, re)

(***************************************************************************)
(* pipeline/normalize.py: normalize_item, normalize_batch                  *)
(***************************************************************************)
normalized_title(raw, source) ==
    LET title == strip(raw.title)
    IN  IF title # <<>> /\ _is_readable(title, 1) THEN title
        ELSE LET in_title == _extract_repo_title(title)
                 repo     == IF in_title # <<>> THEN in_title
                             ELSE _extract_repo_title(raw.content_text)
                 clean    == _strip_markup(raw.content_text)
             IN  IF repo # <<>> THEN repo
                 ELSE IF clean # <<>> /\ _is_readable(clean, 2)
                 THEN strip(take_chars(clean, 100))
                 ELSE source.company_name \o <<" ", "update">>

normalize_item(raw, raw_item, source, id, t) ==
    [ UpdateEvent(id, normalized_title(raw, source), {}, source.trust_tier)
        EXCEPT !.source_id    = source.source_id,
               !.raw_item_id  = raw_item.raw_item_id,
               !.company_slug = source.company_slug,
               !.product_line = source.product_line,
               !.published_at = IF raw.published_at # NoneTime
                                THEN raw.published_at ELSE t,
               !.created_at   = t ]

\* normalize_batch with the loop starting at the second item.
normalize_batch_after_first(items, source, table, t) ==
    [k \in 1..(Len(items) - 1) |->
        normalize_item(items[k + 1], items[k + 1], source, Len(table) + k, t)]

\* The events get their ids as they are built, following the rows in `table`.
normalize_batch(items, source, table, t) ==
    [k \in 1..Len(items) |->
        normalize_item(items[k], items[k], source, Len(table) + k, t)]

(***************************************************************************)
(* pipeline/entity_resolution.py: resolve_entities.  "kw in text" holds    *)
(* when kw is one of the fragments of the text.                            *)
(***************************************************************************)
_KEYWORD_CATEGORIES ==
    << [ keywords |-> <<"new model", "launches model", "releases model", "foundation model", "introduces model">>,
         category |-> "New foundation model release" ],
       [ keywords |-> <<"model upgrade", "improved model", "faster model", "context window", "quality improvement">>,
         category |-> "Model upgrade (quality/latency/context)" ],
       [ keywords |-> <<"vision", "audio", "video", "multimodal", "image generation", "speech", "3d">>,
         category |-> "New modality (vision/audio/video/3D)" ],
       [ keywords |-> <<"fine-tune", "fine-tuning", "finetune", "custom model", "training">>,
         category |-> "Fine-tuning/customization updates" ],
       [ keywords |-> <<"inference", "latency", "throughput", "runtime", "speed", "faster">>,
         category |-> "Inference & serving (speed/runtimes)" ],
       [ keywords |-> <<"pricing", "price", "cost", "billing", "free tier", "rate change">>,
         category |-> "Pricing & billing changes" ],
       [ keywords |-> <<"rate limit", "quota", "throttle", "tier", "usage limit">>,
         category |-> "Rate limits/quotas/tiers" ],
       [ keywords |-> <<"deprecat", "breaking change", "end of life", "eol", "sunset", "removal", "removed">>,
         category |-> "Deprecations/breaking changes" ],
       [ keywords |-> <<"sdk", "library", "package", "pip install", "npm install", "client library">>,
         category |-> "SDK releases/updates" ],
       [ keywords |-> <<"api", "endpoint", "rest api", "graphql", "authentication", "schema change">>,
         category |-> "API changes (endpoints/auth/schemas)" ],
       [ keywords |-> <<"agent", "orchestrat", "workflow", "multi-agent", "crew", "autogen">>,
         category |-> "Agents frameworks/orchestration" ],
       [ keywords |-> <<"function calling", "tool use", "tools", "integration", "plugin", "mcp">>,
         category |-> "Tool-use/function calling/integrations" ],
       [ keywords |-> <<"rag", "retrieval", "search", "vector search", "knowledge base">>,
         category |-> "RAG/retrieval tooling" ],
       [ keywords |-> <<"embedding", "rerank", "reranking", "similarity">>,
         category |-> "Embeddings & reranking" ],
       [ keywords |-> <<"benchmark", "eval", "evaluation", "leaderboard", "score">>,
         category |-> "Evaluation/benchmarks/evals" ],
       [ keywords |-> <<"dataset", "data release", "training data", "corpus">>,
         category |-> "Datasets (new/updated/licensing)" ],
       [ keywords |-> <<"safety", "alignment", "guardrail", "content filter", "responsible ai">>,
         category |-> "Safety/alignment features" ],
       [ keywords |-> <<"policy", "compliance", "governance", "regulation", "gdpr", "terms of service">>,
         category |-> "Policy/compliance/governance" ],
       [ keywords |-> <<"security", "vulnerability", "cve", "breach", "exploit", "patch">>,
         category |-> "Security incidents/vuln disclosures" ],
       [ keywords |-> <<"privacy", "data protection", "opt out", "data retention">>,
         category |-> "Privacy changes" ],
       [ keywords |-> <<"open source", "open-source", "apache license", "mit license", "weights released">>,
         category |-> "Open-source model/tool releases" ],
       [ keywords |-> <<"dashboard", "playground", "console", "developer portal", "studio">>,
         category |-> "New developer products (dashboards/playgrounds)" ],
       [ keywords |-> <<"enterprise", "sso", "rbac", "audit log", "sla">>,
         category |-> "Enterprise features (SSO/RBAC/audit logs)" ],
       [ keywords |-> <<"edge", "on-device", "mobile ai", "onnx", "tflite", "local">>,
         category |-> "Edge/on-device AI" ],
       [ keywords |-> <<"gpu", "tpu", "chip", "accelerator", "driver", "cuda", "hardware">>,
         category |-> "Hardware accelerators/drivers" ],
       [ keywords |-> <<"distributed training", "cluster", "infrastructure", "scaling">>,
         category |-> "Training infrastructure/distributed systems" ],
       [ keywords |-> <<"monitoring", "tracing", "observability", "logging", "llmops", "langsmith", "weave">>,
         category |-> "LLMOps/monitoring/tracing" ],
       [ keywords |-> <<"app launch", "consumer", "chatbot", "assistant", "copilot">>,
         category |-> "App launches (consumer/prosumer)" ],
       [ keywords |-> <<"funding", "acquisition", "merger", "partnership", "series", "investment", "ipo">>,
         category |-> "Funding/M&A/partnerships" ],
       [ keywords |-> <<"outage", "incident", "downtime", "status", "degraded", "maintenance">>,
         category |-> "Reliability/outages/status updates" ] >>

breaking_keywords ==
    {"breaking", "deprecat", "removal", "removed", "end of life", "eol"}

\* resolve_entity assigning the flag from the keywords instead of only
\* setting it.
resolve_entity_flag_assigned(event, source) ==
    LET text    == lower(event.title \o <<" ">> \o or_empty(event.why_it_matters))
        matched == {_KEYWORD_CATEGORIES[c].category :
                       c \in {c \in 1..Len(_KEYWORD_CATEGORIES) :
                                Range(_KEYWORD_CATEGORIES[c].keywords)
                                    \cap Range(text) # {}}}
        default == IF source.fetch_method = "github_releases"
                   THEN {"SDK releases/updates"}
                   ELSE IF "status" \in Range(lower(source.source_name))
                   THEN {"Reliability/outages/status updates"}
                   ELSE {"API changes (endpoints/auth/schemas)"}
    IN  [event EXCEPT
            !.company_slug = IF @ = "" THEN source.company_slug ELSE @,
            !.product_line = IF @ = "" THEN source.product_line ELSE @,
            !.categories = IF matched = {} THEN default ELSE matched,
            !.breaking_change = breaking_keywords \cap Range(text) # {}]

resolve_entity(event, source) ==
    LET text    == lower(event.title \o <<" ">> \o or_empty(event.why_it_matters))
        matched == {_KEYWORD_CATEGORIES[c].category :
                       c \in {c \in 1..Len(_KEYWORD_CATEGORIES) :
                                Range(_KEYWORD_CATEGORIES[c].keywords)
                                    \cap Range(text) # {}}}
        default == IF source.fetch_method = "github_releases"
                   THEN {"SDK releases/updates"}
                   ELSE IF "status" \in Range(lower(source.source_name))
                   THEN {"Reliability/outages/status updates"}
                   ELSE {"API changes (endpoints/auth/schemas)"}
    IN  [event EXCEPT
            !.company_slug = IF @ = "" THEN source.company_slug ELSE @,
            !.product_line = IF @ = "" THEN source.product_line ELSE @,
            !.categories = IF matched = {} THEN default ELSE matched,
            !.breaking_change = IF breaking_keywords \cap Range(text) # {}
                                THEN TRUE ELSE @]

resolve_entities(events, source) ==
    [k \in 1..Len(events) |-> resolve_entity(events[k], source)]

(***************************************************************************)
(* scheduler/jobs.py: pipeline_job.  settings.anthropic_api_key is empty   *)
(* (its default), so neither job builds an Anthropic client and            *)
(* summarize_batch is not called.                                          *)
(***************************************************************************)
UnprocessedLimit == 50

\* unprocessed without the ~has_event condition of the query.
unprocessed_every_item(source, db) ==
    LET rows == SelectSeq(db.raw_items, LAMBDA r :
                    /\ r.source_id = source.source_id
                    /\ ~r.is_duplicate)
    IN  SubSeq(rows, 1, Min(UnprocessedLimit, Len(rows)))

\* Lines 118-128: the source's raw items with no event, in table order.
unprocessed(source, db) ==
    LET rows == SelectSeq(db.raw_items, LAMBDA r :
                    /\ r.source_id = source.source_id
                    /\ ~\E e \in 1..Len(db.evs) : db.evs[e].raw_item_id = r.raw_item_id
                    /\ ~r.is_duplicate)
    IN  SubSeq(rows, 1, Min(UnprocessedLimit, Len(rows)))

\* Lines 108-163 for the sources from the k-th on, in one session.
\* One pass of the loop over the sources: the source's unprocessed raw items
\* are normalized, resolved and ranked into events.
source_events(source, db, t) ==
    TheOnly({
        TheOnly({
            TheOnly({ rank_events(resolved, t) :
                      resolved \in {resolve_entities(normalized, source)} }) :
            normalized \in {normalize_batch(raw_rows, source, db.evs, t)} }) :
        raw_rows \in {unprocessed(source, db)} })

\* The session after the pass has clustered the events and added them.
add_clustered(db, events) ==
    TheOnly({
        TheOnly({ [db EXCEPT !.evs = @ \o clustered.events,
                             !.clusters = clustered.rows] :
                  clustered \in {soft_dedupe_and_cluster(ranked, db.clusters)} }) :
        ranked \in {events} })

RECURSIVE pipeline_sources(_, _, _)
pipeline_sources(k, db, t) ==
    IF k > Len(Sources) THEN db
    ELSE IF ~Sources[k].enabled \/ unprocessed(Sources[k], db) = <<>>
    THEN pipeline_sources(k + 1, db, t)
    ELSE TheOnly({ pipeline_sources(k + 1, session, t) :
                   session \in {add_clustered(db, source_events(Sources[k], db, t))} })

(***************************************************************************)
(* digest/generator.py                                                     *)
(***************************************************************************)
\* Dates are day numbers, tick 0 is 00:00 UTC of day 0; ART is UTC-3.
cutoff_start(target_date) == (target_date - 1) * Hours(24) + Hours(8) + Hours(3)

cutoff_end(target_date) ==
    target_date * Hours(24) + Hours(8) + Hours(3) - TicksPerSecond

_NOISE_TITLES ==
    { <<"community", " ", "update">>, <<"community", " ", "updates">>,
      <<"update">>, <<"updates">>, <<"announcement">>, <<"announcements">> }

_normalize_title(title) == collapse_spaces(lower(strip(title)))

_is_readable_title(title) ==
    LET words == split(title)
    IN  IF Len(words) = 1
        THEN has_alpha_run(words[1]) /\ CharCount(words[1]) >= 4
        ELSE /\ Len(words) >= 2
             /\ 10 * alpha_words(words) > 3 * Len(words)

_looks_like_star_count(text) ==
    \/ "stars today" \in Range(lower(text))
    \/ /\ strip(text) # <<>>
       /\ \A k \in 1..Len(strip(text)) :
             LET f == strip(text)[k] IN IsDigit(f) \/ f = "," \/ IsSpace(f)

_is_noise_event(event) ==
    \/ _looks_like_star_count(event.title)
    \/ /\ event.trust_tier >= 4
       /\ \/ _normalize_title(event.title) \in _NOISE_TITLES
          \/ ~_is_readable_title(event.title)

dedupe_key(ev) ==
    <<LowerFragment(ev.company_slug), LowerFragment(ev.product_line),
      _normalize_title(ev.title)>>

RECURSIVE dedupe_loop(_, _, _, _)
dedupe_loop(events, seen_clusters, seen_keys, deduped) ==
    IF events = <<>> THEN deduped
    ELSE LET ev == Head(events)
         IN  IF \/ ev.cluster_id # NoneId /\ ev.cluster_id \in seen_clusters
                \/ dedupe_key(ev) \in seen_keys
             THEN dedupe_loop(Tail(events), seen_clusters, seen_keys, deduped)
             ELSE dedupe_loop(Tail(events),
                      IF ev.cluster_id # NoneId
                      THEN seen_clusters \cup {ev.cluster_id} ELSE seen_clusters,
                      seen_keys \cup {dedupe_key(ev)},
                      Append(deduped, ev))

\* _dedupe_events recording the cluster of an event it skips as well.
RECURSIVE dedupe_loop_skipped_seen(_, _, _, _)
dedupe_loop_skipped_seen(events, seen_clusters, seen_keys, deduped) ==
    IF events = <<>> THEN deduped
    ELSE LET ev == Head(events)
             with_cluster == IF ev.cluster_id # NoneId
                             THEN seen_clusters \cup {ev.cluster_id}
                             ELSE seen_clusters
         IN  IF \/ ev.cluster_id # NoneId /\ ev.cluster_id \in seen_clusters
                \/ dedupe_key(ev) \in seen_keys
             THEN dedupe_loop_skipped_seen(Tail(events), with_cluster,
                                           seen_keys, deduped)
             ELSE dedupe_loop_skipped_seen(Tail(events), with_cluster,
                      seen_keys \cup {dedupe_key(ev)}, Append(deduped, ev))

_dedupe_events_skipped_seen(events) ==
    dedupe_loop_skipped_seen(events, {}, {}, <<>>)

_dedupe_events(events) == dedupe_loop(events, {}, {}, <<>>)

Digest(id, target_date, secs) ==
    [ digest_id         |-> id,
      digest_date       |-> target_date,
      sections          |-> secs,
      event_count       |-> total_count(secs),
      delivery_channels |-> <<>> ]

\* digest_date is unique: TRUE when the INSERT of a Digest for the date is
\* refused.
digest_date_never_taken(rows, target_date) == FALSE

digest_date_taken(rows, target_date) ==
    \E k \in 1..Len(rows) : rows[k].digest_date = target_date

\* The table with the session's copies of the events written over theirs.
write_back(table, events) ==
    [k \in 1..Len(table) |->
        LET mine == {m \in 1..Len(events) : events[m].event_id = table[k].event_id}
        IN  IF mine = {} THEN table[k] ELSE events[CHOOSE m \in mine : TRUE]]

\* The events of the digest window that no digest holds yet, best first.
window_events(target_date, db) ==
    sort_desc(
        SelectSeq(db.evs, LAMBDA e :
            /\ e.created_at >= cutoff_start(target_date)
            /\ e.created_at <= cutoff_end(target_date)
            /\ e.digest_id = NoneId),
        <<>>)

\* store_digest committing the Digest row without the update of its events.
store_digest_without_events(target_date, db, reclustered, events, secs) ==
    [ outcome  |-> "committed",
      sections |-> secs,
      db       |-> [reclustered EXCEPT
                       !.digests = Append(@, Digest(Len(db.digests) + 1,
                                                    target_date, secs))] ]

\* store_digest with the update of the events lacking its where clause.
store_digest_every_event(target_date, db, reclustered, events, secs) ==
    LET allocated == [reclustered EXCEPT
                         !.evs = write_back(@, set_digest_section(events, secs))]
        digest    == Digest(Len(db.digests) + 1, target_date, secs)
    IN  IF digest_date_taken(db.digests, target_date)
        THEN [outcome |-> "raised", db |-> allocated, sections |-> secs]
        ELSE [ outcome  |-> "committed",
               sections |-> secs,
               db       |-> [allocated EXCEPT
                    !.digests = Append(@, digest),
                    !.evs = [k \in 1..Len(@) |->
                                [@[k] EXCEPT !.digest_id = digest.digest_id]]] ]

\* The last part of generate_digest: the sections are allocated and labelled,
\* the Digest row is added and the events are pointed at it; the flush of a
\* Digest whose date is taken raises, and nothing of the session is committed.
store_digest(target_date, db, reclustered, events, secs) ==
    LET allocated == [reclustered EXCEPT
                         !.evs = write_back(@, set_digest_section(events, secs))]
        digest    == Digest(Len(db.digests) + 1, target_date, secs)
        event_ids == UNION {Range(secs[SectionNames[n]]) : n \in 1..Len(SectionNames)}
    IN  IF digest_date_taken(db.digests, target_date)
        THEN [outcome |-> "raised", db |-> allocated, sections |-> secs]
        ELSE [ outcome  |-> "committed",
               sections |-> secs,
               db       |-> [allocated EXCEPT
                    !.digests = Append(@, digest),
                    !.evs = [k \in 1..Len(@) |->
                                IF @[k].event_id \in event_ids
                                THEN [@[k] EXCEPT !.digest_id = digest.digest_id]
                                ELSE @[k]]] ]

\* The middle part: the events left after _dedupe_events and the noise filter;
\* with none left it returns None, the session holding the re-clustering.
digest_clustered(target_date, db, clustered) ==
    LET reclustered == [db EXCEPT !.evs = write_back(@, clustered.events),
                                  !.clusters = clustered.rows]
    IN  TheOnly({
            IF events = <<>>
            THEN [outcome |-> "none", db |-> reclustered, sections |-> DigestSections]
            ELSE TheOnly({ store_digest(target_date, db, reclustered, events, secs) :
                           secs \in {allocate_sections(events)} }) :
            events \in {SelectSeq(_dedupe_events(clustered.events),
                                  LAMBDA e : ~_is_noise_event(e))} })

\* generate_digest(target_date, db): how it ended ("none" for a None result,
\* "raised" for the IntegrityError of the flush, "committed"), and the
\* session's view of the tables at that point.
generate_digest(target_date, db) ==
    TheOnly({
        IF found = <<>>
        THEN [outcome |-> "none", db |-> db, sections |-> DigestSections]
        ELSE TheOnly({ digest_clustered(target_date, db, clustered) :
                       clustered \in {soft_dedupe_and_cluster(found, db.clusters)} }) :
        found \in {window_events(target_date, db)} })

(***************************************************************************)
(* The jobs run one after another on one store: fetch_source_job,          *)
(* pipeline_job and digest_job (or scripts/run_digest.py) for any target   *)
(* date, while the clock moves through ClockTimes.                         *)
(***************************************************************************)
Dates == {1, 2}

\* An instant inside the window of date 1, one between the windows of
\* dates 1 and 2, and one inside the window of date 2.
ClockTimes ==
    <<cutoff_start(1) + Hours(1), cutoff_end(1) + 1, cutoff_start(2) + Hours(1)>>

FeedCandidates ==
    { RawItemData("e1", <<"u">>, <<"a", "b", "a", "b">>, <<>>),
      RawItemData("e2", <<"u">>, <<"a", "b", "c", "a", "b">>, <<>>),
      RawItemData("e3", <<"u">>, <<"Update">>, <<>>),
      RawItemData("e4", <<"u", "a">>, <<"Update">>, <<>>) }

Tables == [raw_items |-> raw_items, evs |-> evs, clusters |-> clusters,
           digests |-> digests]

Init ==
    /\ stage = "idle"
    /\ evs = <<>>
    /\ sections = DigestSections
    /\ appended = 0
    /\ input = NoneId
    /\ now = ClockTimes[1]
    /\ clusters = <<>>
    /\ raw_items = <<>>
    /\ digests = <<>>
    /\ jobs = IdleJobs
    /\ outbox = <<>>
    /\ snapshots = <<>>

AdvanceClock ==
    /\ \E k \in 1..Len(ClockTimes) : ClockTimes[k] > now /\ now' = ClockTimes[k]
    /\ UNCHANGED <<stage, evs, sections, appended, input, clusters,
                   raw_items, digests, jobs, outbox, snapshots>>

\* fetch_source_job(source_id)
FetchSourceJob(s, items) ==
    /\ appended < MaxFetches
    /\ Sources[s].enabled
    /\ Sources[s].fetch_method \in _CONNECTOR_MAP
    /\ raw_items' = run_fetch(StartedJob(s, items, raw_items), raw_items)
    /\ appended' = appended + 1
    /\ stage' = "fetched"
    /\ input' = s
    /\ UNCHANGED <<evs, sections, now, clusters, digests, jobs, outbox, snapshots>>

\* pipeline_job()
PipelineJob ==
    /\ \E db \in {pipeline_sources(1, Tables, now)} :
          evs' = db.evs /\ clusters' = db.clusters
    /\ stage' = "pipeline_committed"
    /\ input' = NoneId
    /\ UNCHANGED <<sections, appended, now, raw_items, digests, jobs, outbox, snapshots>>

\* session_closed keeping what the session flushed without committing.
session_closed_flushed(g, db) == g.db

\* The tables once the session of digest_job is closed: generate_digest
\* commits only on its last path, and what a session holds uncommitted when
\* it is closed is rolled back.
session_closed(g, db) == IF g.outcome = "committed" THEN g.db ELSE db

\* A call digest_job made to the delivery functions.
Delivery(call, target_date) == [call |-> call, digest_date |-> target_date]

\* digest_job() with today = target_date; `sent` is what send_digest_email
\* returns.
DigestJob(target_date, sent) ==
    \E g \in {generate_digest(target_date, Tables)} :
      \E persisted \in {session_closed(g, Tables)} :
        /\ input' = target_date
        /\ evs' = persisted.evs
        /\ clusters' = persisted.clusters
        /\ IF g.outcome = "committed"
           THEN /\ digests' = [persisted.digests EXCEPT ![Len(persisted.digests)] =
                                 [@ EXCEPT !.delivery_channels =
                                     (IF sent THEN <<"email">> ELSE <<>>) \o <<"web">>]]
                /\ sections' = g.sections
                /\ outbox' = outbox \o <<Delivery("send_digest_email", target_date),
                                         Delivery("publish_web_digest", target_date),
                                         Delivery("rebuild_archive", target_date)>>
                /\ stage' = "digest_delivered"
           ELSE /\ digests' = persisted.digests
                /\ UNCHANGED <<sections, outbox>>
                /\ stage' = IF g.outcome = "raised" THEN "digest_raised"
                            ELSE "digest_none"
        /\ UNCHANGED <<appended, now, raw_items, jobs, snapshots>>

Next ==
    \/ AdvanceClock
    \/ \E s \in 1..Len(Sources), items \in Lists(FeedCandidates, MaxItems) :
          FetchSourceJob(s, items)
    \/ PipelineJob
    \/ \E target_date \in Dates, sent \in BOOLEAN : DigestJob(target_date, sent)

Spec == Init /\ [][Next]_vars

(***************************************************************************)
(* Claims about generate_digest and the stored clusters (checked under     *)
(* Spec).                                                                  *)
(***************************************************************************)
HasDigest(target_date) ==
    \E k \in 1..Len(digests) : digests[k].digest_date = target_date

\* C3: storage never holds two Digests for one target date, and an
\* invocation for a date that already has a Digest (a no-op or a failure)
\* leaves the stored Digests and every event's digest assignment as they were.
C3_OneDigestPerDate ==
    /\ [](\A a, b \in 1..Len(digests) :
            a # b => digests[a].digest_date # digests[b].digest_date)
    /\ [][(stage' \in {"digest_none", "digest_raised", "digest_delivered"}
             /\ HasDigest(input'))
          => /\ digests' = digests
             /\ Len(evs') = Len(evs)
             /\ \A e \in 1..Len(evs) : evs'[e].digest_id = evs[e].digest_id]_vars

\* An invocation for a date that already has a Digest found unassigned
\* events in the window, built a second Digest and failed on the flush.
C3_Witness ==
    /\ stage = "digest_raised"
    /\ HasDigest(input)
    /\ \E e \in 1..Len(evs) :
          /\ evs[e].digest_id = NoneId
          /\ evs[e].created_at >= cutoff_start(input)
          /\ evs[e].created_at <= cutoff_end(input)

\* C7: in every persisted state reached by pipeline passes and digest
\* generations, each Cluster's event_count equals the number of events
\* whose cluster reference is that Cluster.
C7_EventCountMatchesReferences ==
    \A c \in 1..Len(clusters) :
        clusters[c].event_count =
            Cardinality({e \in 1..Len(evs) :
                            evs[e].cluster_id = clusters[c].cluster_id})

(***************************************************************************)
(* pipeline/summarizer.py: summarize_batch and summarize_event.            *)
(*                                                                         *)
(* A text is a sequence of one-character strings.  The text of a model     *)
(* response is a sequence of tokens: "{", "}", "[", "]", ",", "null", a    *)
(* newline, a code fence, a word of prose, or a whole member of a JSON     *)
(* object (a key with its value).  A parsed JSON value is a record with a  *)
(* type field.                                                             *)
(***************************************************************************)
\* text[:n]
Slice(text, n) == SubSeq(text, 1, Min(n, Len(text)))

Chars(n) == [k \in 1..n |-> "a"]

JNull == [type |-> "null"]
JInt(n) == [type |-> "int", n |-> n]
JStr(s) == [type |-> "str", s |-> s]
JList(items) == [type |-> "list", items |-> items]
JDict(members) == [type |-> "dict", members |-> members]
JBool(b) == [type |-> "bool", b |-> b]

\* The members a text can hold: token |-> <<key, value>>.
Members ==
    [ title_str |-> <<"title", JStr(<<"N", "e", "w">>)>>,
      title_int |-> <<"title", JInt(5)>>,
      why_str   |-> <<"why_it_matters", JStr(<<"W", "h", "y">>)>>,
      name_str  |-> <<"name", JStr(<<"v", "1">>)>>,
      id_int    |-> <<"id", JInt(7)>>,
      hits_list |-> <<"hits", JList(<<JDict(<< <<"title", JStr(<<"N", "e", "w">>)>> >>)>>)>>,
      severity_high     |-> <<"severity_suggestion", JStr(<<"HIGH">>)>>,
      severity_critical |-> <<"severity_suggestion", JStr(<<"CRITICAL">>)>>,
      breaking_true     |-> <<"breaking_change", JBool(TRUE)>>,
      breaking_false    |-> <<"breaking_change", JBool(FALSE)>>,
      tags_pricing      |-> <<"tags", JDict(<< <<"categories",
                                JList(<<JStr(<<"Pricing & billing changes">>)>>)>> >>)>>,
      tags_str          |-> <<"tags", JStr(<<"p", "r", "i", "c", "e">>)>> ]

IsMember(tok) == tok \in DOMAIN Members

\* The members of an object, between its braces: one, or several with commas.
RECURSIVE members_ok(_)
members_ok(toks) ==
    \/ toks = <<>>
    \/ /\ IsMember(Head(toks))
       /\ \/ Len(toks) = 1
          \/ /\ Len(toks) >= 3
             /\ toks[2] = ","
             /\ members_ok(SubSeq(toks, 3, Len(toks)))

\* JSONDecodeError
DecodeError == [ok |-> FALSE, value |-> JNull, rest |-> <<>>]

\* The JSON value at the head of the tokens, and the tokens after it.
RECURSIVE parse_value(_)
RECURSIVE parse_elements(_, _)
parse_value(toks) ==
    IF toks = <<>> THEN DecodeError
    ELSE IF Head(toks) = "null"
    THEN [ok |-> TRUE, value |-> JNull, rest |-> Tail(toks)]
    ELSE IF Head(toks) = "["
    THEN IF Len(toks) >= 2 /\ toks[2] = "]"
         THEN [ok |-> TRUE, value |-> JList(<<>>), rest |-> SubSeq(toks, 3, Len(toks))]
         ELSE parse_elements(Tail(toks), <<>>)
    ELSE IF Head(toks) = "{"
    THEN LET closes == {k \in 1..Len(toks) : toks[k] = "}"}
             close  == CHOOSE k \in closes : \A m \in closes : k <= m
             inner  == SelectSeq(SubSeq(toks, 2, close - 1), IsMember)
         IN  IF closes # {} /\ members_ok(SubSeq(toks, 2, close - 1))
             THEN [ ok    |-> TRUE,
                    value |-> JDict([k \in 1..Len(inner) |-> Members[inner[k]]]),
                    rest  |-> SubSeq(toks, close + 1, Len(toks)) ]
             ELSE DecodeError
    ELSE DecodeError

\* The elements of a list after its "[" or after a comma, up to its "]".
parse_elements(toks, acc) ==
    TheOnly({
        IF ~v.ok \/ v.rest = <<>> THEN DecodeError
        ELSE IF Head(v.rest) = "]"
        THEN [ok |-> TRUE, value |-> JList(Append(acc, v.value)),
              rest |-> Tail(v.rest)]
        ELSE IF Head(v.rest) = ","
        THEN parse_elements(Tail(v.rest), Append(acc, v.value))
        ELSE DecodeError :
        v \in {parse_value(toks)} })

\* json.loads(text): ok is FALSE for JSONDecodeError.  White space between
\* the tokens of a JSON text is insignificant.
json_loads(text) ==
    TheOnly({
        IF v.ok /\ v.rest = <<>> THEN v ELSE DecodeError :
        v \in {parse_value(SelectSeq(text, LAMBDA tok : tok # "\n"))} })

\* bool(value)
truthy(value) ==
    CASE value.type = "null" -> FALSE
      [] value.type = "int"  -> value.n # 0
      [] value.type = "str"  -> value.s # <<>>
      [] value.type = "list" -> value.items # <<>>
      [] value.type = "dict" -> value.members # <<>>
      [] value.type = "bool" -> value.b

\* text.strip(), over tokens
strip_text(text) ==
    LET solid == {k \in 1..Len(text) : text[k] # "\n"}
    IN  IF solid = {} THEN <<>>
        ELSE SubSeq(text, CHOOSE k \in solid : \A m \in solid : k <= m,
                          CHOOSE k \in solid : \A m \in solid : k >= m)

\* text.split("\n")
RECURSIVE split_lines(_)
split_lines(text) ==
    IF \A k \in 1..Len(text) : text[k] # "\n" THEN <<text>>
    ELSE LET nl == CHOOSE k \in 1..Len(text) :
                      text[k] = "\n" /\ \A m \in 1..(k - 1) : text[m] # "\n"
         IN  <<SubSeq(text, 1, nl - 1)>> \o split_lines(SubSeq(text, nl + 1, Len(text)))

\* "\n".join(lines)
RECURSIVE join_lines(_)
join_lines(lines) ==
    IF lines = <<>> THEN <<>>
    ELSE IF Len(lines) = 1 THEN lines[1]
    ELSE lines[1] \o <<"\n">> \o join_lines(Tail(lines))

\* the lines of a fenced text that are not fence lines
unfenced(text) ==
    join_lines(SelectSeq(split_lines(text),
                         LAMBDA l : ~(l # <<>> /\ Head(l) = "~~~")))

\* _parse_llm_json(text): the parsed value, or None
_parse_llm_json(raw_text) ==
    LET stripped == strip_text(raw_text)
        text     == IF stripped # <<>> /\ Head(stripped) = "~~~"
                    THEN unfenced(stripped) ELSE stripped
        opens    == {k \in 1..Len(text) : text[k] = "{"}
        closes   == {k \in 1..Len(text) : text[k] = "}"}
        start    == CHOOSE k \in opens : \A m \in opens : k <= m
        end      == CHOOSE k \in closes : \A m \in closes : k >= m
    IN  IF json_loads(text).ok THEN json_loads(text).value
        ELSE IF opens # {} /\ closes # {} /\ end >= start
                /\ json_loads(SubSeq(text, start, end)).ok
        THEN json_loads(SubSeq(text, start, end)).value
        ELSE JNull

\* data.get(key): the value of the last member with the key, or None
dict_get(data, key) ==
    LET hits == {k \in 1..Len(data.members) : data.members[k][1] = key}
    IN  IF hits = {} THEN JNull
        ELSE data.members[CHOOSE k \in hits : \A m \in hits : k >= m][2]

\* _set_fallback_summary(event)
_set_fallback_summary(event) ==
    [event EXCEPT !.summary_short  = Slice(event.title, 300),
                  !.summary_medium = Slice(event.title, 1000)]

\* A JSON string of one fragment as the Python string it is, and a JSON list
\* of such strings as the categories of an event.
str_value(value) == value.s[1]

list_values(value) == {str_value(value.items[k]) : k \in 1..Len(value.items)}

\* _apply_llm_output(event, data): the event it leaves and whether it raised.
\* data.get raises AttributeError when data is not a dict, title[:200]
\* raises TypeError when the title is not a string, and tags.get raises
\* AttributeError when the tags are not a dict; what was assigned before an
\* exception stays assigned.
_apply_llm_output(event, data) ==
    IF data.type # "dict" THEN [raised |-> TRUE, event |-> event]
    ELSE LET title    == dict_get(data, "title")
             why      == dict_get(data, "why_it_matters")
             tags     == dict_get(data, "tags")
             breaking == dict_get(data, "breaking_change")
             severity == dict_get(data, "severity_suggestion")
         IN  IF truthy(title) /\ title.type # "str"
             THEN [raised |-> TRUE, event |-> event]
             ELSE LET retitled == IF truthy(title)
                                  THEN [event EXCEPT !.title = Slice(title.s, 200)]
                                  ELSE event
                      with_why == IF truthy(why)
                                  THEN [retitled EXCEPT !.why_it_matters = why.s]
                                  ELSE retitled
                  IN  IF truthy(tags) /\ tags.type # "dict"
                      THEN [raised |-> TRUE, event |-> with_why]
                      ELSE
                      LET cats     == IF truthy(tags) THEN dict_get(tags, "categories")
                                      ELSE JNull
                          tagged   == IF truthy(cats)
                                      THEN [with_why EXCEPT !.categories = list_values(cats)]
                                      ELSE with_why
                          flagged  == IF truthy(breaking)
                                      THEN [tagged EXCEPT !.breaking_change = TRUE]
                                      ELSE tagged
                          applied  == IF truthy(severity)
                                      THEN [flagged EXCEPT !.severity = str_value(severity)]
                                      ELSE flagged
                      IN  [ raised |-> FALSE,
                            event  |-> [applied EXCEPT
                                !.summary_short =
                                    Slice(applied.title \o <<".", " ">>
                                            \o or_empty(applied.why_it_matters), 300),
                                !.summary_medium =
                                    Slice(applied.title \o <<"\n", "\n">> \o <<"\n", "\n">>
                                            \o or_empty(applied.why_it_matters), 1000)] ]

\* _build_content(event, None): the title line and the fields already there
_build_content(event) ==
    (IF event.title # <<>> THEN <<"T", "i", "t", "l", "e", ":", " ">> \o event.title
     ELSE <<>>)
    \o (IF or_empty(event.why_it_matters) # <<>>
        THEN <<"\n">> \o event.why_it_matters ELSE <<>>)

\* What client.messages.create does: it raises anthropic.APIError, or it
\* returns a response with a text.
APIError == [kind |-> "APIError", text |-> <<>>]
Response(text) == [kind |-> "response", text |-> text]

\* summarize_event(event, client) when the call ends as reply
summarize_event(event, reply) ==
    IF _build_content(event) = <<>> THEN [raised |-> FALSE, event |-> event]
    ELSE IF reply.kind = "APIError"
    THEN [raised |-> FALSE, event |-> _set_fallback_summary(event)]
    ELSE TheOnly({
            IF truthy(parsed) THEN _apply_llm_output(event, parsed)
            ELSE [raised |-> FALSE, event |-> _set_fallback_summary(event)] :
            parsed \in {_parse_llm_json(reply.text)} })

\* summarize_batch(events, client) from event i on, the k-th call to the
\* client ending as replies[k]: the list it leaves, whether an exception
\* left it, and how many events the loop went through.
RECURSIVE summarize_loop(_, _, _, _)
summarize_loop(events, i, replies, calls) ==
    IF i > Len(events) THEN [raised |-> FALSE, events |-> events, calls |-> calls]
    ELSE IF or_empty(events[i].summary_short) # <<>>
    THEN summarize_loop(events, i + 1, replies, Append(calls, 0))
    ELSE TheOnly({
            IF r.raised
            THEN [raised |-> TRUE, events |-> [events EXCEPT ![i] = r.event],
                  calls |-> Append(calls, i)]
            ELSE summarize_loop([events EXCEPT ![i] = r.event], i + 1, replies,
                                Append(calls, i)) :
            r \in {summarize_event(events[i], replies[i])} })

summarize_batch(events, replies) == summarize_loop(events, 1, replies, <<>>)

(***************************************************************************)
(* Inputs of the summarizer study: batches of up to MaxBatch events, some  *)
(* of them summarized already, and for every event the way its call to the *)
(* model ends.                                                             *)
(***************************************************************************)
MaxBatch == 2

\* UpdateEvent with the fields the summarizer reads and writes.
SummarizerEvent(id, title, summary_short) ==
    [ event_id |-> id, title |-> title, summary_short |-> summary_short,
      summary_medium |-> NoneText, why_it_matters |-> NoneText ]

SummarizerTitles == {<<"a", "b">>, Chars(301), Chars(1001)}

Replies ==
    { APIError,
      Response(<<"prose">>),
      Response(<<"prose", "{", "title_str", "}", "prose">>),
      Response(<<"~~~", "\n", "{", "title_str", ",", "why_str", "}", "\n", "~~~">>),
      Response(<<"{", "why_str", "}">>),
      Response(<<"{", "}">>),
      Response(<<"{", "prose", "}">>),
      Response(<<"null">>),
      Response(<<"[", "]">>),
      Response(<<"[", "null", "]">>),
      Response(<<"{", "title_int", "}">>) }

InitSumm ==
    /\ stage = "input"
    /\ evs = <<>>
    /\ sections = DigestSections
    /\ appended = 0
    /\ input = [events |-> <<>>, replies |-> <<>>, calls |-> <<>>]
    /\ now = 0
    /\ clusters = <<>>
    /\ raw_items = <<>>
    /\ digests = <<>>
    /\ jobs = IdleJobs
    /\ outbox = <<>>
    /\ snapshots = <<>>

SummAppend ==
    /\ stage = "input"
    /\ Len(evs) < MaxBatch
    /\ \E title \in SummarizerTitles, done \in {NoneText, <<"o", "l", "d">>} :
          evs' = Append(evs, SummarizerEvent(Len(evs) + 1, title, done))
    /\ UNCHANGED <<stage, sections, appended, input, now, clusters>>
    /\ UNCHANGED store

\* summarize_batch(events, client)
SummarizeBatch(replies) ==
    /\ stage = "input"
    /\ evs # <<>>
    /\ Len(replies) = Len(evs)
    /\ \E r \in {summarize_batch(evs, replies)} :
          /\ evs' = r.events
          /\ stage' = IF r.raised THEN "summarize_raised" ELSE "summarized"
          /\ input' = [events |-> evs, replies |-> replies, calls |-> r.calls]
    /\ UNCHANGED <<sections, appended, now, clusters>>
    /\ UNCHANGED store

NextSumm ==
    \/ SummAppend
    \/ \E replies \in Lists(Replies, MaxBatch) : SummarizeBatch(replies)

SpecSumm == InitSumm /\ [][NextSumm]_vars

(***************************************************************************)
(* Claims about summarize_batch (checked under SpecSumm).                  *)
(***************************************************************************)
\* The call for the k-th event of the batch failed: it raised an API error,
\* or its text does not parse as a JSON object with the expected members.
ExpectedObject(value) ==
    /\ value.type = "dict"
    /\ \A k \in 1..Len(value.members) :
          value.members[k][2].type = "str"

SummarizerFailed(k) ==
    /\ k \in Range(input.calls)
    /\ \/ input.replies[k].kind = "APIError"
       \/ ~ExpectedObject(_parse_llm_json(input.replies[k].text))

\* C11: when the summarizer fails for an event of a batch (an API error, or
\* output that does not parse as the expected JSON object), summarize_batch
\* does not raise, the event keeps its title and its other fields and gets
\* its title cut to 300 and to 1000 characters as summaries, and every later
\* event of the batch is still processed.
C11_FailureFallsBack ==
    (stage \in {"summarized", "summarize_raised"}
        /\ \E k \in 1..Len(evs) : SummarizerFailed(k))
    => /\ stage = "summarized"
       /\ Len(input.calls) = Len(evs)
       /\ \A k \in 1..Len(evs) :
             SummarizerFailed(k) =>
                evs[k] = [input.events[k] EXCEPT
                             !.summary_short  = Slice(input.events[k].title, 300),
                             !.summary_medium = Slice(input.events[k].title, 1000)]

(***************************************************************************)
(* connectors/: the fetch of each adapter.                                 *)
(*                                                                         *)
(* What http_client.get does is an HTTPError or a response with a status   *)
(* code and a text.  A text is a sequence of tokens as above; a token that *)
(* is not markup is one line of a page, "<item>" is one entry of a feed.   *)
(* A URL is a sequence of its parts.                                       *)
(***************************************************************************)
HTTPError == [kind |-> "HTTPError", status_code |-> 0, text |-> <<>>]
HTTPResponse(status_code, text) ==
    [kind |-> "response", status_code |-> status_code, text |-> text]

\* What a fetch returns: its items, or the exception that left it; and the
\* Snapshot it added to the session, if any.
NoSnapshot == [snapshot_id |-> NoneId, content_hash |-> <<>>, diff_from_prev |-> <<>>]
Fetched(items) == [raised |-> "none", items |-> items, added |-> NoSnapshot]
FetchRaised(exception) == [raised |-> exception, items |-> <<>>, added |-> NoSnapshot]

\* str(n) for the identifiers of the payloads
str_of_int(n) == IF n = 7 THEN "7" ELSE "n"

\* the text of a JSON string, None when the value is missing
text_or_none(value) == IF value.type = "str" THEN value.s ELSE <<>>

\* feedparser.parse(text).entries: the entries of a feed document; a text
\* that is no feed has none (feedparser does not raise on malformed input).
feed_entries(text) ==
    IF text # <<>> /\ Head(text) = "<rss>"
    THEN SelectSeq(text, LAMBDA tok : tok = "<item>")
    ELSE <<>>

\* RSSConnector.fetch; an entry carries an id, a link and a title
RSSConnector_fetch(source, reply) ==
    IF reply.kind = "HTTPError" THEN Fetched(<<>>)
    ELSE IF reply.status_code = 304 THEN Fetched(<<>>)
    ELSE IF reply.status_code >= 400 THEN Fetched(<<>>)
    ELSE Fetched([k \in 1..Len(feed_entries(reply.text)) |->
                    RawItemData("e1", source.source_url, <<"N", "e", "w">>, <<>>)])

\* _parse_generic_json(data, source), without parse_rules
_parse_generic_json(data, source) ==
    LET listed  == {k \in 1..(IF data.type = "dict" THEN Len(data.members) ELSE 0) :
                       /\ data.members[k][1] \in {"results", "items", "data", "posts", "hits"}
                       /\ data.members[k][2].type = "list"}
        records == IF data.type = "list" THEN data.items
                   ELSE IF data.type = "dict"
                   THEN IF listed # {}
                        THEN data.members[CHOOSE k \in listed : TRUE][2].items
                        ELSE <<data>>
                   ELSE <<>>
        dicts   == SelectSeq(records, LAMBDA r : r.type = "dict")
    IN  Fetched([k \in 1..Len(dicts) |->
            RawItemData(IF dict_get(dicts[k], "id").type = "int"
                        THEN str_of_int(dict_get(dicts[k], "id").n) ELSE "",
                        source.source_url,
                        text_or_none(dict_get(dicts[k], "title")),
                        text_or_none(dict_get(dicts[k], "description")))])

\* _parse_hn_results(data, source): data.get raises on a value that is no dict
_parse_hn_results(data, source) ==
    IF data.type # "dict" THEN FetchRaised("AttributeError")
    ELSE LET hits == IF dict_get(data, "hits").type = "list"
                     THEN dict_get(data, "hits").items ELSE <<>>
         IN  IF \E k \in 1..Len(hits) : hits[k].type # "dict"
             THEN FetchRaised("AttributeError")
             ELSE Fetched([k \in 1..Len(hits) |->
                     RawItemData(NoneExt, source.source_url,
                                 text_or_none(dict_get(hits[k], "title")),
                                 text_or_none(dict_get(hits[k], "story_text")))])

\* APIPollConnector.fetch; resp.json() raises on a text that is no JSON
APIPollConnector_fetch(source, reply) ==
    IF reply.kind = "HTTPError" THEN Fetched(<<>>)
    ELSE IF reply.status_code >= 400 THEN Fetched(<<>>)
    ELSE TheOnly({
            IF ~data.ok THEN FetchRaised("JSONDecodeError")
            ELSE IF "hn.algolia.com" \in Range(source.source_url)
            THEN _parse_hn_results(data.value, source)
            ELSE _parse_generic_json(data.value, source) :
            data \in {json_loads(reply.text)} })

\* _extract_owner_repo(url): the parts after the host, None (<<>>) if fewer
\* than two
_extract_owner_repo(url) ==
    LET parts == SelectSeq(url, LAMBDA p : p \notin {"https://github.com/", "/", "releases"})
    IN  IF Len(parts) >= 2 THEN SubSeq(parts, 1, 2) ELSE <<>>

\* GitHubReleasesConnector.fetch
GitHubReleasesConnector_fetch(source, reply) ==
    IF _extract_owner_repo(source.source_url) = <<>> THEN Fetched(<<>>)
    ELSE IF reply.kind = "HTTPError" THEN Fetched(<<>>)
    ELSE IF reply.status_code >= 400 THEN Fetched(<<>>)
    ELSE TheOnly({
            IF ~releases.ok THEN FetchRaised("JSONDecodeError")
            ELSE IF releases.value.type # "list" THEN Fetched(<<>>)
            ELSE IF \E k \in 1..Len(releases.value.items) :
                        releases.value.items[k].type # "dict"
            THEN FetchRaised("AttributeError")
            ELSE Fetched([k \in 1..Len(releases.value.items) |->
                    RawItemData(
                        IF dict_get(releases.value.items[k], "id").type = "int"
                        THEN str_of_int(dict_get(releases.value.items[k], "id").n)
                        ELSE "",
                        source.source_url,
                        text_or_none(dict_get(releases.value.items[k], "name")),
                        <<>>)]) :
            releases \in {json_loads(reply.text)} })

\* soup.get_text("\n", strip=True).splitlines(): the lines of text of a page
get_text(html) ==
    SelectSeq(html, LAMBDA tok : tok \notin {"<p>", "</p>", "<rss>", "</rss>", "\n"})

\* The lines difflib.unified_diff marks "+": those of b outside the matching
\* blocks of SequenceMatcher(None, a, b).
RECURSIVE added_lines(_, _)
added_lines(a, b) ==
    IF a = <<>> \/ b = <<>> THEN b
    ELSE TheOnly({
            IF m.size = 0 THEN b
            ELSE added_lines(SubSeq(a, 1, m.i - 1), SubSeq(b, 1, m.j - 1))
                 \o added_lines(SubSeq(a, m.i + m.size, Len(a)),
                                SubSeq(b, m.j + m.size, Len(b))) :
            m \in {find_longest_match(a, b)} })

\* hashlib.sha256(block.encode()).hexdigest()[:16] for the blocks of the
\* studied pages: equal blocks give equal ids, different blocks different ids.
block_id(block) ==
    CASE block = <<"prose">>      -> "sha256:prose"
      [] block = <<"old">>        -> "sha256:old"
      [] block = <<"new">>        -> "sha256:new"
      [] block = <<"old", "new">> -> "sha256:old,new"
      [] OTHER                    -> "sha256:other"

\* HTMLDiffConnector.fetch without the return for an unchanged hash.
HTMLDiffConnector_fetch_no_short_circuit(source, reply, prev_snapshot) ==
    IF reply.kind = "HTTPError" THEN Fetched(<<>>)
    ELSE IF reply.status_code >= 400 THEN Fetched(<<>>)
    ELSE LET page_hash    == <<"sha256">> \o reply.text
             current_text == get_text(reply.text)
             new_snapshot == [ snapshot_id    |-> source.source_id,
                               content_hash   |-> page_hash,
                               diff_from_prev |-> current_text ]
             added        == added_lines(prev_snapshot.diff_from_prev, current_text)
         IN  IF prev_snapshot = NoSnapshot
                     \/ prev_snapshot.diff_from_prev = current_text
                     \/ added = <<>>
             THEN [Fetched(<<>>) EXCEPT !.added = new_snapshot]
             ELSE [Fetched(<<RawItemData(block_id(added), source.source_url,
                                         <<added[1]>>, added)>>)
                      EXCEPT !.added = new_snapshot]

\* HTMLDiffConnector.fetch, prev_snapshot being the latest Snapshot of the
\* source (NoSnapshot for none).  The lines of the studied pages are
\* short and hold no "owner/repo", so _extract_title gives the first line
\* of the block, and no line is blank, so the changes are one block.
\* added is the Snapshot the call adds to the session.
HTMLDiffConnector_fetch(source, reply, prev_snapshot) ==
    IF reply.kind = "HTTPError" THEN Fetched(<<>>)
    ELSE IF reply.status_code >= 400 THEN Fetched(<<>>)
    ELSE LET page_hash    == <<"sha256">> \o reply.text
             current_text == get_text(reply.text)
             new_snapshot == [ snapshot_id    |-> source.source_id,
                               content_hash   |-> page_hash,
                               diff_from_prev |-> current_text ]
             added        == added_lines(prev_snapshot.diff_from_prev, current_text)
         IN  IF prev_snapshot # NoSnapshot /\ prev_snapshot.content_hash = page_hash
             THEN Fetched(<<>>)
             ELSE IF prev_snapshot = NoSnapshot
                     \/ prev_snapshot.diff_from_prev = current_text
                     \/ added = <<>>
             THEN [Fetched(<<>>) EXCEPT !.added = new_snapshot]
             ELSE [Fetched(<<RawItemData(block_id(added), source.source_url,
                                         <<added[1]>>, added)>>)
                      EXCEPT !.added = new_snapshot]

\* connector_for_source(fetch_method): the class, or ValueError
connector_for_source(fetch_method) ==
    CASE fetch_method \in {"rss", "social_api"} -> "RSSConnector"
      [] fetch_method = "html_diff"             -> "HTMLDiffConnector"
      [] fetch_method = "github_releases"       -> "GitHubReleasesConnector"
      [] fetch_method = "api_poll"              -> "APIPollConnector"
      [] OTHER                                  -> "ValueError"

\* connector.fetch(source, http_client, db)
connector_fetch(connector, source, reply, prev_snapshot) ==
    CASE connector = "RSSConnector" -> RSSConnector_fetch(source, reply)
      [] connector = "HTMLDiffConnector" ->
            HTMLDiffConnector_fetch(source, reply, prev_snapshot)
      [] connector = "GitHubReleasesConnector" ->
            GitHubReleasesConnector_fetch(source, reply)
      [] connector = "APIPollConnector" -> APIPollConnector_fetch(source, reply)

(***************************************************************************)
(* scheduler/jobs.py: fetch_source_job as one step, from the lookup of the *)
(* source to the commit, for the study of its outcomes.  ended is how    *)
(* the call ended for its caller: the exception that left it, or           *)
(* "returned".                                                             *)
(***************************************************************************)
JobEnd(ended, logged, rows) == [ended |-> ended, logged |-> logged, rows |-> rows]

\* Whether the loop over the items or the commit raises (IntegrityError).
RECURSIVE fetch_raises(_, _)
fetch_raises(job, committed) ==
    IF job.pc = "raised" THEN TRUE
    ELSE IF job.i > Len(job.items)
    THEN ~uq_raw_items_source_ext(committed \o job.pending)
    ELSE fetch_raises(process_candidate(job, committed), committed)

fetch_source_job(source, reply, prev_snapshot, rows) ==
    IF ~source.enabled THEN JobEnd("returned", "", rows)
    ELSE IF connector_for_source(source.fetch_method) = "ValueError"
    THEN JobEnd("returned", "No connector for source", rows)
    ELSE TheOnly({
            IF got.raised # "none" THEN JobEnd("returned", "Fetch failed", rows)
            ELSE IF fetch_raises(StartedJob(source.source_id, got.items, rows), rows)
            THEN JobEnd("IntegrityError", "", rows)
            ELSE JobEnd("returned", "Fetched",
                        run_fetch(StartedJob(source.source_id, got.items, rows), rows)) :
            got \in {connector_fetch(connector_for_source(source.fetch_method),
                                     source, reply, prev_snapshot)} })

(***************************************************************************)
(* Inputs of the connector study: a source of every fetch method and of an *)
(* unknown one, the ways the HTTP request can end, and the latest Snapshot *)
(* of the source.  A call of fetch_source_job leaves its rows in           *)
(* raw_items; up to MaxJobRuns of them are made.                           *)
(***************************************************************************)
MaxJobRuns == 1

ConnectorSource(id, enabled, fetch_method, source_url) ==
    [ source_id |-> id, enabled |-> enabled, fetch_method |-> fetch_method,
      source_url |-> source_url ]

ConnectorSources ==
    { ConnectorSource(1, TRUE, "rss", <<"https://x/", "feed">>),
      ConnectorSource(2, TRUE, "social_api", <<"https://reddit/", "r">>),
      ConnectorSource(3, TRUE, "html_diff", <<"https://x/", "page">>),
      ConnectorSource(4, TRUE, "github_releases", <<"https://github.com/", "o", "/", "r">>),
      ConnectorSource(5, TRUE, "api_poll", <<"https://api/", "x">>),
      ConnectorSource(6, TRUE, "api_poll", <<"https://", "hn.algolia.com", "/", "search">>),
      ConnectorSource(7, TRUE, "webhook", <<"https://x/", "hook">>),
      ConnectorSource(8, FALSE, "rss", <<"https://x/", "old">>) }

Bodies ==
    { <<>>,
      <<"prose">>,
      <<"<rss>", "<item>", "</rss>">>,
      <<"<p>", "prose", "</p>">>,
      <<"[", "{", "id_int", ",", "name_str", "}", "]">>,
      <<"{", "title_str", "}">>,
      <<"{", "hits_list", "}">>,
      <<"[", "null", "]">> }

HTTPReplies ==
    {HTTPError, HTTPResponse(304, <<>>)}
    \cup {HTTPResponse(200, text) : text \in Bodies}
    \cup {HTTPResponse(code, text) : code \in {404, 500}, text \in {<<>>, <<"prose">>}}

SnapshotOf(id, html) ==
    [ snapshot_id |-> id, content_hash |-> <<"sha256">> \o html,
      diff_from_prev |-> get_text(html) ]

PrevSnapshots ==
    { NoSnapshot,
      SnapshotOf(3, <<"<p>", "prose", "</p>">>),
      SnapshotOf(3, <<"<p>", "old", "</p>">>) }

InitConn ==
    /\ stage = "idle"
    /\ evs = <<>>
    /\ sections = DigestSections
    /\ appended = 0
    /\ input = <<>>
    /\ now = 0
    /\ clusters = <<>>
    /\ raw_items = <<>>
    /\ digests = <<>>
    /\ jobs = IdleJobs
    /\ outbox = <<>>
    /\ snapshots = <<>>

\* connector.fetch(source, http_client, db), called on its own
ConnectorFetch(source, reply, prev_snapshot) ==
    /\ connector_for_source(source.fetch_method) # "ValueError"
    /\ stage' = "fetch_called"
    /\ input' = [ source |-> source, reply |-> reply, prev_snapshot |-> prev_snapshot,
                  result |-> connector_fetch(connector_for_source(source.fetch_method),
                                             source, reply, prev_snapshot) ]
    /\ UNCHANGED <<evs, sections, appended, now, clusters>>
    /\ UNCHANGED store

\* fetch_source_job(source_id)
FetchSourceJobCall(source, reply, prev_snapshot) ==
    /\ appended < MaxJobRuns
    /\ \E r \in {fetch_source_job(source, reply, prev_snapshot, raw_items)} :
          /\ raw_items' = r.rows
          /\ input' = [ source |-> source, reply |-> reply,
                        prev_snapshot |-> prev_snapshot, result |-> r ]
    /\ stage' = "job_called"
    /\ appended' = appended + 1
    /\ UNCHANGED <<evs, sections, now, clusters, digests, jobs, outbox, snapshots>>

\* Only HTMLDiffConnector stores Snapshots, so only its sources have one.
SnapshotsOf(source) ==
    IF source.fetch_method = "html_diff" THEN PrevSnapshots ELSE {NoSnapshot}

NextConn ==
    \E source \in ConnectorSources, reply \in HTTPReplies :
        \E prev_snapshot \in SnapshotsOf(source) :
            \/ ConnectorFetch(source, reply, prev_snapshot)
            \/ FetchSourceJobCall(source, reply, prev_snapshot)

SpecConn == InitConn /\ [][NextConn]_vars

(***************************************************************************)
(* Claims about the adapters and fetch_source_job (checked under SpecConn).*)
(***************************************************************************)
\* The text is not what the adapter parses: no JSON for the JSON adapters, no
\* feed for the feed adapter; the page adapter takes any text.
Unparseable(connector, text) ==
    CASE connector \in {"APIPollConnector", "GitHubReleasesConnector"} ->
            ~json_loads(text).ok
      [] connector = "RSSConnector" -> ~(text # <<>> /\ Head(text) = "<rss>")
      [] OTHER -> FALSE

RecoverableFailure(source, reply) ==
    \/ reply.kind = "HTTPError"
    \/ reply.status_code >= 400
    \/ reply.status_code = 304
    \/ Unparseable(connector_for_source(source.fetch_method), reply.text)

\* C12: on every recoverable failure (a transport error, a 4xx/5xx response,
\* a 304 response, a response body that cannot be parsed) the fetch of every
\* adapter returns an empty list of items and does not raise to its caller.
C12_FailureGivesEmptyList ==
    (stage = "fetch_called" /\ RecoverableFailure(input.source, input.reply))
    => /\ input.result.raised = "none"
       /\ input.result.items = <<>>

\* C13: a fetch for a source whose fetch method is not one of the supported
\* adapter kinds ends in a named configuration failure that reaches the
\* caller; it does not end like a fetch that found nothing.
C13_UnknownMethodSurfaces ==
    (stage = "job_called" /\ input.source.enabled
        /\ input.source.fetch_method \notin _CONNECTOR_MAP)
    => input.result.ended = "ValueError"

(***************************************************************************)
(* Claims about digest_job's no-op outcome (checked under Spec).           *)
(***************************************************************************)
\* The events generate_digest(target_date) finds: unassigned, in the window.
InWindow(e, target_date) ==
    /\ e.digest_id = NoneId
    /\ e.created_at >= cutoff_start(target_date)
    /\ e.created_at <= cutoff_end(target_date)

\* C14: when no unassigned event lies in the window of the target date, or
\* all of them are removed by the digest-time dedupe and the noise filter,
\* generate_digest returns no digest and persisted state stays as it was (no
\* Digest row, no Cluster row, no event's cluster, digest or section field
\* changes), and digest_job sends no email, publishes no page and rebuilds
\* no archive.
C14_NoEventsNoEffect ==
    [][stage' = "digest_none"
        => /\ digests' = digests
           /\ clusters' = clusters
           /\ evs' = evs
           /\ outbox' = outbox]_vars

\* generate_digest returned None although the window held unassigned events,
\* clustered ones among them: dedupe and the noise filter removed them all
\* after the re-clustering had added a Cluster to the session.
C14_Witness ==
    /\ stage = "digest_none"
    /\ \E e \in 1..Len(evs) :
          InWindow(evs[e], input) /\ evs[e].cluster_id # NoneId

(***************************************************************************)
(* Claims about the Digest row and its events (checked under Spec).        *)
(***************************************************************************)
\* The ids of the events a stored Digest lists in its sections.
ListedIn(digest) ==
    UNION {Range(digest.sections[SectionNames[n]]) : n \in 1..Len(SectionNames)}

\* The ids of the events that carry the digest id.
AssignedTo(digest_id) ==
    {evs[e].event_id : e \in {k \in 1..Len(evs) : evs[k].digest_id = digest_id}}

\* C15: in every persisted state, also after a generation that failed, the
\* events that carry a stored Digest's id are exactly the events listed in
\* its sections, and no event carries the id of a Digest that is not stored.
C15_DigestAndAssignmentsAtomic ==
    /\ \A d \in 1..Len(digests) :
          AssignedTo(digests[d].digest_id) = ListedIn(digests[d])
    /\ \A e \in 1..Len(evs) :
          evs[e].digest_id # NoneId
            => \E d \in 1..Len(digests) : digests[d].digest_id = evs[e].digest_id

\* A generation failed on the flush of its Digest while an earlier Digest
\* with its events was stored.
C15_Witness ==
    /\ stage = "digest_raised"
    /\ \E d \in 1..Len(digests) : AssignedTo(digests[d].digest_id) # {}

(***************************************************************************)
(* Claims about interleaved fetch jobs (checked under SpecFetch).          *)
(***************************************************************************)
\* C16: in every persisted state, also when fetch jobs interleave between
\* the hard_dedupe lookup and the commit of the rows they insert, no two
\* RawItems of one source that are not marked duplicate have the same
\* content hash.
C16_HashUniquePerSource ==
    \A a, b \in 1..Len(raw_items) :
        (a # b /\ raw_items[a].source_id = raw_items[b].source_id
               /\ ~raw_items[a].is_duplicate /\ ~raw_items[b].is_duplicate)
            => raw_items[a].content_hash # raw_items[b].content_hash


(***************************************************************************)
(* digest/generator.py, steps 2b and 3 of generate_digest: the events of   *)
(* the window pass _dedupe_events, then the noise filter, and what is left *)
(* is allocated to sections.  The study feeds it lists of MaxFilterLen or  *)
(* fewer events, in ranked order, whose titles, tiers, clusters and        *)
(* companies cover the branches of the two filters.                        *)
(***************************************************************************)
MaxFilterLen == 3

FilterTitles ==
    [ abab   |-> <<"a", "b", "a", "b">>,
      Abab   |-> <<" ", "A", "b", "a", "b">>,
      abcab  |-> <<"a", "b", "c", "a", "b">>,
      abc    |-> <<"a", "b", "c">>,
      Update |-> <<"Update">>,
      number |-> <<"1", ",", "2">>,
      stars  |-> <<"2", " ", "stars today">> ]

FilterKind(title, tier, cluster, company) ==
    [title |-> FilterTitles[title], trust_tier |-> tier,
     cluster_id |-> cluster, company_slug |-> company]

FilterKinds ==
    { FilterKind("abab", 1, NoneId, "x"), FilterKind("abab", 1, 1, "x"),
      FilterKind("abab", 1, 2, "x"),      FilterKind("Abab", 1, 2, "x"),
      FilterKind("abcab", 1, 2, "x"),     FilterKind("abcab", 1, 1, "x"),
      FilterKind("abab", 1, NoneId, "y"),
      FilterKind("abc", 4, NoneId, "x"),    FilterKind("abc", 1, NoneId, "x"),
      FilterKind("Update", 4, NoneId, "x"), FilterKind("Update", 1, NoneId, "x"),
      FilterKind("number", 1, NoneId, "x"), FilterKind("stars", 1, NoneId, "x"),
      FilterKind("abab", 4, NoneId, "x") }

FilterEvent(id, kind) ==
    [UpdateEvent(id, kind.title, {}, kind.trust_tier)
        EXCEPT !.cluster_id = kind.cluster_id,
               !.company_slug = kind.company_slug]

InitFilter ==
    /\ stage = "input"
    /\ evs = <<>>
    /\ sections = DigestSections
    /\ appended = 0
    /\ input = <<>>
    /\ now = 0
    /\ clusters = <<>>
    /\ raw_items = <<>>
    /\ digests = <<>>
    /\ jobs = IdleJobs
    /\ outbox = <<>>
    /\ snapshots = <<>>

FilterAppend ==
    /\ stage = "input"
    /\ Len(evs) < MaxFilterLen
    /\ \E kind \in FilterKinds :
          evs' = Append(evs, FilterEvent(Len(evs) + 1, kind))
    /\ appended' = appended + 1
    /\ UNCHANGED <<stage, sections, input, now, clusters>>
    /\ UNCHANGED store

\* generate_digest, lines 87-96: events = _dedupe_events(events); events =
\* [e for e in events if not _is_noise_event(e)]; nothing left returns None,
\* otherwise sections = allocate_sections(events).
FilterEvents ==
    /\ stage = "input"
    /\ \E deduped \in {_dedupe_events(evs)} :
         \E kept \in {SelectSeq(deduped, LAMBDA e : ~_is_noise_event(e))} :
            /\ input' = [events |-> evs, deduped |-> deduped]
            /\ evs' = kept
            /\ IF kept = <<>>
               THEN /\ stage' = "filtered_none"
                    /\ UNCHANGED sections
               ELSE /\ stage' = "filtered"
                    /\ sections' = allocate_sections(kept)
    /\ UNCHANGED <<appended, now, clusters>>
    /\ UNCHANGED store

NextFilter == FilterAppend \/ FilterEvents

SpecFilter == InitFilter /\ [][NextFilter]_vars

Filtered == stage \in {"filtered", "filtered_none"}

\* Two events collide when they share a non-null cluster or a dedupe key.
Collide(a, b) ==
    \/ a.cluster_id # NoneId /\ a.cluster_id = b.cluster_id
    \/ dedupe_key(a) = dedupe_key(b)

\* out is in taken from positions of in that increase.
OrderedSubsequence(out, in) ==
    \E f \in [1..Len(out) -> 1..Len(in)] :
        /\ \A k \in 1..Len(out) : in[f[k]] = out[k]
        /\ \A k, m \in 1..Len(out) : k < m => f[k] < f[m]

NoTwoCollide(out) ==
    \A k, m \in 1..Len(out) : k # m => ~Collide(out[k], out[m])

PositionIn(in, e) == CHOOSE j \in 1..Len(in) : in[j] = e

Dropped(out, in) == {j \in 1..Len(in) : in[j] \notin Range(out)}

\* C17 as stated: _dedupe_events returns an order-preserving subsequence of
\* its input in which no two events share a non-null cluster id or a key, and
\* every survivor is the earliest of the input events it collides with.
C17_SurvivorIsEarliest ==
    Filtered =>
        /\ OrderedSubsequence(input.deduped, input.events)
        /\ NoTwoCollide(input.deduped)
        /\ \A k \in 1..Len(input.deduped), j \in 1..Len(input.events) :
              Collide(input.events[j], input.deduped[k])
                  => j >= PositionIn(input.events, input.deduped[k])

\* C17 amended: _dedupe_events returns an order-preserving subsequence of its
\* input in which no two events share a non-null cluster id or a key, and
\* every event it drops collides with a survivor that is earlier in the input.
C17_DroppedHasEarlierSurvivor ==
    Filtered =>
        /\ OrderedSubsequence(input.deduped, input.events)
        /\ NoTwoCollide(input.deduped)
        /\ \A j \in Dropped(input.deduped, input.events) :
              \E k \in 1..Len(input.deduped) :
                 /\ PositionIn(input.events, input.deduped[k]) < j
                 /\ Collide(input.events[j], input.deduped[k])

\* A survivor that shares its cluster with an earlier, dropped event.
C17_Witness ==
    /\ Filtered
    /\ \E j \in Dropped(input.deduped, input.events) :
         \E k \in 1..Len(input.deduped) :
            /\ j < PositionIn(input.events, input.deduped[k])
            /\ input.events[j].cluster_id # NoneId
            /\ input.events[j].cluster_id = input.deduped[k].cluster_id


\* Noise as section 4.6 words it, with the readability heuristic of
\* normalization (normalize.py _is_readable) at a minimum word count.
StatedNoise(event, min_words) ==
    \/ _looks_like_star_count(event.title)
    \/ /\ event.trust_tier = 4
       /\ \/ _normalize_title(event.title) \in _NOISE_TITLES
          \/ ~_is_readable(event.title, min_words)

\* normalize_item applies the heuristic to titles with min_words=1.
TitleMinWords == 1

\* The events whose ids the sections hold.
Placed(secs, events) ==
    {e \in Range(events) :
        \E k \in 1..Len(SectionNames) : e.event_id \in Range(secs[SectionNames[k]])}

\* C18: no noise event is placed in a digest section, where an event is noise
\* exactly when its title is star-count or pure-numeric spam (any tier) or,
\* for tier 4 only, its title is a stopword or fails the readability heuristic
\* of normalization; so the noise filter drops an event exactly when it is
\* noise in that sense, and a tier 1 to 3 event with a stopword or unreadable
\* title is kept.
C18_NoiseExactlyAsStated ==
    Filtered =>
        /\ \A e \in Placed(sections, input.events) : ~StatedNoise(e, TitleMinWords)
        /\ \A k \in 1..Len(input.deduped) :
              (input.deduped[k] \notin Range(evs))
                  <=> StatedNoise(input.deduped[k], TitleMinWords)


(***************************************************************************)
(* scripts/run_pipeline.py: step 1 of main, the loop that fetches the      *)
(* enabled sources one after another, each call of fetch_source_job inside *)
(* try/except Exception.  One step of the study is one turn of the loop:   *)
(* the job of the next source runs from its lookup to its commit in a      *)
(* session of its own.  input.i is the position of the loop and            *)
(* input.outcomes what each turn came to.                                  *)
(***************************************************************************)
BatchSources ==
    << ConnectorSource(1, TRUE, "rss", <<"https://x/", "feed">>),
       ConnectorSource(4, TRUE, "github_releases", <<"https://github.com/", "o", "/", "r">>),
       ConnectorSource(9, TRUE, "github_releases", <<"https://github.com/", "o", "/", "s">>),
       ConnectorSource(5, TRUE, "api_poll", <<"https://api/", "x">>) >>

\* What the request of a turn can bring: no answer, a feed of one entry, a
\* release list, a release list that names one release id twice, an object,
\* an empty body.
BatchReplies ==
    { HTTPError,
      HTTPResponse(200, <<"<rss>", "<item>", "</rss>">>),
      HTTPResponse(200, <<"[", "{", "id_int", ",", "name_str", "}", "]">>),
      HTTPResponse(200, <<"[", "{", "id_int", ",", "name_str", "}", ",",
                               "{", "id_int", "}", "]">>),
      HTTPResponse(200, <<"{", "title_str", "}">>),
      HTTPResponse(200, <<>>) }

\* The call without the try/except around it.
main_no_try(r) == r

\* try: await fetch_source_job(...) / except Exception: logger.error(...):
\* how the turn ends for the loop.
main_try(r) ==
    IF r.ended = "returned" THEN r
    ELSE [r EXCEPT !.ended = "returned", !.logged = "Failed"]

BatchOutcome(source, r, turn) ==
    [ source_id |-> source.source_id, job |-> r, ended |-> turn.ended,
      logged |-> turn.logged ]

InitBatch ==
    /\ stage = "batch_loop"
    /\ evs = <<>>
    /\ sections = DigestSections
    /\ appended = 0
    /\ input = [i |-> 1, outcomes |-> <<>>]
    /\ now = 0
    /\ clusters = <<>>
    /\ raw_items = <<>>
    /\ digests = <<>>
    /\ jobs = IdleJobs
    /\ outbox = <<>>
    /\ snapshots = <<>>

\* One turn of "for source in sources".
BatchFetch(reply) ==
    /\ stage = "batch_loop"
    /\ input.i <= Len(BatchSources)
    /\ \E r \in {fetch_source_job(BatchSources[input.i], reply, NoSnapshot, raw_items)} :
         \E turn \in {main_try(r)} :
            /\ raw_items' = r.rows
            /\ input' = [i |-> input.i + 1,
                         outcomes |-> Append(input.outcomes,
                                         BatchOutcome(BatchSources[input.i], r, turn))]
            /\ stage' = IF turn.ended # "returned" THEN "batch_raised"
                        ELSE IF input.i = Len(BatchSources) THEN "batch_fetched"
                        ELSE "batch_loop"
    /\ UNCHANGED <<evs, sections, appended, now, clusters, digests, jobs, outbox, snapshots>>

NextBatch == \E reply \in BatchReplies : BatchFetch(reply)

SpecBatch == InitBatch /\ [][NextBatch]_vars

IsPrefix(s, t) == Len(s) <= Len(t) /\ SubSeq(t, 1, Len(s)) = s

\* C19: in a batch run over the enabled sources a failure while fetching one
\* source neither stops the loop (every source gets its turn, in order, and
\* the loop only ends after the last one) nor removes a RawItem persisted
\* before it.
C19_FailureIsolated ==
    /\ [](stage \in {"batch_loop", "batch_fetched"} =>
            /\ (stage = "batch_loop") = (input.i <= Len(BatchSources))
            /\ Len(input.outcomes) = input.i - 1
            /\ \A k \in 1..Len(input.outcomes) :
                  input.outcomes[k].source_id = BatchSources[k].source_id)
    /\ [](stage # "batch_raised")
    /\ [][IsPrefix(raw_items, raw_items')]_vars

\* A finished batch in which one source failed at its commit and one in its
\* adapter, with a source before them and a source after them persisted.
C19_Witness ==
    /\ stage = "batch_fetched"
    /\ \E a, b, c, d \in 1..Len(input.outcomes) :
          /\ a < b /\ a < c /\ b < d /\ c < d
          /\ input.outcomes[b].job.ended = "IntegrityError"
          /\ input.outcomes[c].job.logged = "Fetch failed"
          /\ \E row \in Range(raw_items) : row.source_id = input.outcomes[a].source_id
          /\ \E row \in Range(raw_items) : row.source_id = input.outcomes[d].source_id


(***************************************************************************)
(* The single pass C20 compares allocate_sections with: the event at       *)
(* position k goes to top5 when k is one of the first five positions, and  *)
(* otherwise to the section of the first rule that matches it and is below *)
(* quota, or to everything_else.                                           *)
(***************************************************************************)
ReferenceRules(event) ==
    << [section |-> "radar",     matches |-> event.trust_tier = 4],
       [section |-> "developer", matches |-> event.categories \cap SECTION_DEVELOPER # {}],
       [section |-> "models",    matches |-> event.categories \cap SECTION_MODELS # {}],
       [section |-> "pricing",   matches |-> event.categories \cap SECTION_PRICING # {}],
       [section |-> "incidents", matches |-> event.categories \cap SECTION_INCIDENTS # {}] >>

ReferenceSection(event, k, secs) ==
    LET rules == ReferenceRules(event)
        open  == {r \in 1..Len(rules) :
                     /\ rules[r].matches
                     /\ Len(secs[rules[r].section]) < SECTION_QUOTAS[rules[r].section]}
    IN  IF k <= 5 THEN "top5"
        ELSE IF open = {} THEN "everything_else"
        ELSE rules[CHOOSE r \in open : \A q \in open : r <= q].section

RECURSIVE ReferenceFrom(_, _, _)
ReferenceFrom(events, k, secs) ==
    IF k > Len(events) THEN secs
    ELSE ReferenceFrom(events, k + 1,
            [secs EXCEPT ![ReferenceSection(events[k], k, secs)] =
                            Append(@, events[k].event_id)])

ReferencePass(events) == ReferenceFrom(events, 1, DigestSections)

\* C20: for every input list, allocate_sections returns what the reference
\* single pass returns: the first five events in top5 whatever their tier or
\* category, each later event in the section of the first rule (tier 4 ->
\* radar, developer, models, pricing, incidents) that matches and is below
\* quota, and everything_else for an event no rule takes.
C20_EqualsReferencePass ==
    stage = "allocated" => sections = ReferencePass(input)

\* An allocation with a tier-4 event in top5, radar full, a later tier-4
\* event in a category section, and an event in everything_else.
C20_Witness ==
    /\ stage = "allocated"
    /\ \E i \in 1..Len(evs) :
          evs[i].trust_tier = 4 /\ evs[i].digest_section = "top5"
    /\ Len(sections.radar) = SECTION_QUOTAS.radar
    /\ \E i \in 1..Len(evs) :
          evs[i].trust_tier = 4 /\ evs[i].digest_section = "developer"
    /\ sections.everything_else # <<>>


\* impact_score never rises along the list.
SortedByScore(events) ==
    \A i, j \in 1..Len(events) : i < j => events[i].impact_score >= events[j].impact_score

PositionOfId(events, id) == CHOOSE i \in 1..Len(events) : events[i].event_id = id

\* The section lists its events in the order the input has them.
InInputOrder(listed, events) ==
    \A a, b \in 1..Len(listed) :
        a < b => PositionOfId(events, listed[a]) < PositionOfId(events, listed[b])

\* The place of a section in the order the rules are tried; everything_else
\* comes after all of them.
RuleOrder(section) ==
    CASE section = "radar" -> 1 [] section = "developer" -> 2
      [] section = "models" -> 3 [] section = "pricing" -> 4
      [] section = "incidents" -> 5 [] OTHER -> 6

\* The event matched the rule of the section and was placed further down.
TurnedAway(event, section) ==
    /\ event.digest_section # "top5"
    /\ \E r \in 1..Len(ReferenceRules(event)) :
          /\ ReferenceRules(event)[r].section = section
          /\ ReferenceRules(event)[r].matches
    /\ RuleOrder(event.digest_section) > RuleOrder(section)

\* C21: for an input sorted by descending impact score every section lists
\* its events in input order, and an event placed elsewhere because the
\* section its rule targets was full scores no higher than any event of that
\* section: no event is displaced by a lower-scored one.
C21_NoDisplacementByLowerScore ==
    (stage = "allocated" /\ SortedByScore(input)) =>
        /\ \A k \in 1..Len(SectionNames) :
              InInputOrder(sections[SectionNames[k]], input)
        /\ \A i \in 1..Len(evs) :
              \A section \in {"radar", "developer", "models", "pricing", "incidents"} :
                  TurnedAway(evs[i], section) =>
                      /\ Len(sections[section]) = SECTION_QUOTAS[section]
                      /\ \A id \in Range(sections[section]) :
                            input[PositionOfId(input, id)].impact_score
                                >= evs[i].impact_score

\* A sorted input with scores that differ, in which the full developer
\* section turned a lower-scored event away to models.
C21_Witness ==
    /\ stage = "allocated"
    /\ SortedByScore(input)
    /\ \E i \in 1..Len(evs) :
          /\ TurnedAway(evs[i], "developer")
          /\ evs[i].digest_section = "models"
          /\ \E id \in Range(sections.developer) :
                input[PositionOfId(input, id)].impact_score > evs[i].impact_score


\* The rows a finishing step added to the table.
RowsAdded == SubSeq(raw_items', Len(raw_items) + 1, Len(raw_items'))

\* C22: when a fetch job finishes, exactly one RawItem has been persisted
\* for each fetched candidate that survived hard-dedup (each row the job
\* added to its session), whatever the external ids and contents of the
\* candidates and of the rows stored before.
C22_OneRowPerSurvivor ==
    [][\A j \in JobSlots :
          (jobs[j].pc = "loop" /\ jobs'[j].pc = "idle") =>
              /\ Len(RowsAdded) = Len(jobs[j].pending)
              /\ \A p \in 1..Len(jobs[j].pending) :
                    /\ RowsAdded[p].source_id = jobs[j].pending[p].source_id
                    /\ RowsAdded[p].external_id = jobs[j].pending[p].external_id
                    /\ RowsAdded[p].content_hash = jobs[j].pending[p].content_hash]_vars


(***************************************************************************)
(* The stages an event passes, pipeline_job (jobs.py 147-158) and          *)
(* generate_digest (generator.py 85-104) with an Anthropic client: entity  *)
(* resolution, ranking, clustering, summarization and allocation, each     *)
(* handed the list the stage before it left.  The study runs up to         *)
(* MaxStageSteps stages in any order over one or two events of a           *)
(* first-party source; input.scored says that rank_events has run.         *)
(***************************************************************************)
MaxStageSteps == 4

StageTitles == { <<"Breaking", " ", "a", "b">>, <<"a", "b", "a", "b">> }

StageEvent(id, title) ==
    [UpdateEvent(id, title, {}, Sources[1].trust_tier)
        EXCEPT !.source_id = Sources[1].source_id,
               !.company_slug = Sources[1].company_slug,
               !.published_at = RankNow,
               !.created_at = RankNow]

\* What the model answers for an event.
StageReplies ==
    { APIError,
      Response(<<"{", "title_str", "}">>),
      Response(<<"{", "breaking_true", "}">>),
      Response(<<"{", "title_str", ",", "breaking_false", "}">>),
      Response(<<"{", "severity_high", "}">>),
      Response(<<"{", "severity_critical", "}">>),
      Response(<<"{", "tags_pricing", "}">>),
      Response(<<"{", "why_str", ",", "tags_str", "}">>) }

InitStages ==
    /\ stage = "normalized"
    /\ \E titles \in Lists(StageTitles, 2) :
          /\ titles # <<>>
          /\ evs = [i \in 1..Len(titles) |-> StageEvent(i, titles[i])]
    /\ sections = DigestSections
    /\ appended = 0
    /\ input = [scored |-> FALSE]
    /\ now = 0
    /\ clusters = <<>>
    /\ raw_items = <<>>
    /\ digests = <<>>
    /\ jobs = IdleJobs
    /\ outbox = <<>>
    /\ snapshots = <<>>

\* A stage may follow unless an exception ended the job.
StageMayRun ==
    /\ stage # "summarize_raised"
    /\ appended < MaxStageSteps
    /\ appended' = appended + 1

\* events = await resolve_entities(events, source)
StageResolve ==
    /\ StageMayRun
    /\ evs' = resolve_entities(evs, Sources[1])
    /\ stage' = "resolved"
    /\ UNCHANGED <<sections, input, now, clusters>>
    /\ UNCHANGED store

\* events = await rank_events(events)
StageRank ==
    /\ StageMayRun
    /\ evs' = rank_events(evs, RankNow)
    /\ stage' = "ranked"
    /\ input' = [scored |-> TRUE]
    /\ UNCHANGED <<sections, now, clusters>>
    /\ UNCHANGED store

\* events = await soft_dedupe_and_cluster(events, db)
StageCluster ==
    /\ StageMayRun
    /\ \E r \in {soft_dedupe_and_cluster(evs, clusters)} :
          /\ evs' = r.events
          /\ clusters' = r.rows
    /\ stage' = "clustered"
    /\ UNCHANGED <<sections, input, now>>
    /\ UNCHANGED store

\* await summarize_batch(events, anthropic_client, db)
StageSummarize(replies) ==
    /\ StageMayRun
    /\ Len(replies) = Len(evs)
    /\ \E r \in {summarize_batch(evs, replies)} :
          /\ evs' = r.events
          /\ stage' = IF r.raised THEN "summarize_raised" ELSE "summarized"
    /\ UNCHANGED <<sections, input, now, clusters>>
    /\ UNCHANGED store

\* sections = allocate_sections(events)
StageAllocate ==
    /\ StageMayRun
    /\ sections' = allocate_sections(evs)
    /\ evs' = set_digest_section(evs, sections')
    /\ stage' = "allocated"
    /\ UNCHANGED <<input, now, clusters>>
    /\ UNCHANGED store

NextStages ==
    \/ StageResolve
    \/ StageRank
    \/ StageCluster
    \/ \E replies \in Lists(StageReplies, 2) : StageSummarize(replies)
    \/ StageAllocate

SpecStages == InitStages /\ [][NextStages]_vars

\* C23: at all times after scoring, through summarization and digest
\* generation and whatever the summarizer returns, every event's severity is
\* one of LOW, MEDIUM, HIGH.
C23_SeverityIsLabel ==
    input.scored =>
        \A i \in 1..Len(evs) : evs[i].severity \in {"LOW", "MEDIUM", "HIGH"}


\* C24: an event's breaking-change flag is monotonic over the pipeline: once
\* true, no later stage (entity resolution run again, ranking, clustering,
\* summarization with any model output, allocation) sets it back to false.
C24_BreakingFlagMonotonic ==
    [][\A i \in 1..Len(evs) :
          evs[i].breaking_change =>
              \A j \in 1..Len(evs') :
                  evs'[j].event_id = evs[i].event_id => evs'[j].breaking_change]_vars

\* Entity resolution has just run over an event that carries the flag and
\* whose text, retitled by the summarizer, has no breaking keyword any more.
C24_Witness ==
    /\ stage = "resolved"
    /\ \E i \in 1..Len(evs) :
          /\ evs[i].breaking_change
          /\ evs[i].title = <<"N", "e", "w">>
          /\ breaking_keywords
                \cap Range(lower(evs[i].title \o <<" ">>
                                    \o or_empty(evs[i].why_it_matters))) = {}


(***************************************************************************)
(* connectors/html_diff.py over time: fetch_source_job called again and    *)
(* again for one page source, up to MaxPageFetches times.  The job hands   *)
(* the adapter the latest Snapshot of the source; the Snapshot the adapter *)
(* adds is persisted by the job's commit together with the RawItems.       *)
(***************************************************************************)
MaxPageFetches == 4

PageSource == ConnectorSource(3, TRUE, "html_diff", <<"https://x/", "page">>)

\* The page as "old", as "prose", as "old" followed by "new", the text of
\* "old" in other markup; a 304 and the failures of the request.
PageReplies ==
    { HTTPResponse(200, <<"<p>", "old", "</p>">>),
      HTTPResponse(200, <<"<p>", "prose", "</p>">>),
      HTTPResponse(200, <<"<p>", "old", "</p>", "<p>", "new", "</p>">>),
      HTTPResponse(200, <<"old">>),
      HTTPResponse(304, <<>>),
      HTTPResponse(404, <<"prose">>),
      HTTPError }

\* select(Snapshot).where(source_id == ...).order_by(fetched_at.desc()).limit(1)
latest_snapshot(table, source) ==
    LET mine == {k \in 1..Len(table) : table[k].snapshot_id = source.source_id}
    IN  IF mine = {} THEN NoSnapshot
        ELSE table[CHOOSE k \in mine : \A m \in mine : m <= k]

InitPages ==
    /\ stage = "idle"
    /\ evs = <<>>
    /\ sections = DigestSections
    /\ appended = 0
    /\ input = <<>>
    /\ now = 0
    /\ clusters = <<>>
    /\ raw_items = <<>>
    /\ digests = <<>>
    /\ jobs = IdleJobs
    /\ outbox = <<>>
    /\ snapshots = <<>>

\* fetch_source_job(source_id) for the page source, the request ending as
\* reply: the adapter's call, the loop over its items and the commit.
PageFetch(reply) ==
    /\ appended < MaxPageFetches
    /\ \E prev \in {latest_snapshot(snapshots, PageSource)} :
         \E got \in {HTMLDiffConnector_fetch(PageSource, reply, prev)} :
           \E job \in {StartedJob(PageSource.source_id, got.items, raw_items)} :
              /\ input' = [reply |-> reply, result |-> got]
              /\ IF fetch_raises(job, raw_items)
                 THEN /\ stage' = "page_raised"
                      /\ UNCHANGED <<raw_items, snapshots>>
                 ELSE /\ stage' = "page_fetched"
                      /\ raw_items' = run_fetch(job, raw_items)
                      /\ snapshots' = IF got.added = NoSnapshot THEN snapshots
                                      ELSE Append(snapshots, got.added)
    /\ appended' = appended + 1
    /\ UNCHANGED <<evs, sections, now, clusters, digests, jobs, outbox>>

NextPages == \E reply \in PageReplies : PageFetch(reply)

SpecPages == InitPages /\ [][NextPages]_vars

\* The request brought a page.
PageArrived(reply) == reply.kind # "HTTPError" /\ reply.status_code < 400

PageHash(reply) == <<"sha256">> \o reply.text

\* C25: over any sequence of page fetches of one source, the adapter emits
\* items only on a fetch where a prior snapshot exists and the page hash
\* differs from the most recent snapshot's; the first successful fetch stores
\* exactly one baseline snapshot and emits nothing; a fetch whose hash equals
\* the most recent snapshot's stores no snapshot and emits nothing.
C25_EmitsOnlyOnChange ==
    [][LET prev  == latest_snapshot(snapshots, PageSource)
           reply == input'.reply
           items == input'.result.items
       IN  /\ items # <<>> =>
                /\ prev # NoSnapshot
                /\ PageArrived(reply)
                /\ prev.content_hash # PageHash(reply)
           /\ (PageArrived(reply) /\ prev = NoSnapshot) =>
                /\ items = <<>>
                /\ Len(snapshots') = 1
                /\ snapshots'[1].content_hash = PageHash(reply)
           /\ (PageArrived(reply) /\ prev # NoSnapshot
                                  /\ prev.content_hash = PageHash(reply)) =>
                /\ items = <<>>
                /\ snapshots' = snapshots]_vars

\* After a baseline and a fetch of the unchanged page, a changed page has
\* just brought items: two snapshots from three or more fetches.
C25_Witness ==
    /\ stage = "page_fetched"
    /\ input.result.items # <<>>
    /\ Len(snapshots) = 2
    /\ appended >= 3
    /\ raw_items # <<>>


\* C26: an event's digest reference, once set, never changes, and across any
\* sequence of digest generations no event is listed in the sections of two
\* different digests.
C26_DigestReferenceFinal ==
    /\ [][\A e \in 1..Len(evs) :
            evs[e].digest_id # NoneId =>
               \E f \in 1..Len(evs') :
                  /\ evs'[f].event_id = evs[e].event_id
                  /\ evs'[f].digest_id = evs[e].digest_id]_vars
    /\ [](\A c, d \in 1..Len(digests) :
            c # d => ListedIn(digests[c]) \cap ListedIn(digests[d]) = {})

\* Two digests are stored, each listing events, and a digest generation has
\* just run over a store that held events of the earlier digest.
C26_Witness ==
    /\ stage = "digest_delivered"
    /\ Len(digests) = 2
    /\ AssignedTo(digests[1].digest_id) # {}
    /\ AssignedTo(digests[2].digest_id) # {}
    /\ ListedIn(digests[1]) # {}
    /\ ListedIn(digests[2]) # {}


\* The events that reference the raw item.
EventsOf(raw_item_id) == {e \in 1..Len(evs) : evs[e].raw_item_id = raw_item_id}

\* C27: after any sequence of pipeline_job runs executed one after another,
\* every RawItem is referenced by at most one Event.
C27_OneEventPerRawItem ==
    \A r \in 1..Len(raw_items) : Cardinality(EventsOf(raw_items[r].raw_item_id)) <= 1

\* A pipeline run has just committed over a store whose earlier run had
\* already given a raw item its event: events of two runs are stored.
C27_Witness ==
    /\ stage = "pipeline_committed"
    /\ \E e, f \in 1..Len(evs) :
          /\ evs[e].created_at < evs[f].created_at
          /\ evs[e].raw_item_id # evs[f].raw_item_id
          /\ evs[e].source_id = evs[f].source_id


(***************************************************************************)
(* generate_digest called with an Anthropic client (generator.py 98-104):  *)
(* between allocate_sections and the Digest row, summarize_batch goes      *)
(* through the events of top5, developer, models, pricing and incidents.   *)
(* The study stores five summarized events that fill top5 and one or two   *)
(* events behind them, and runs one digest generation.                     *)
(***************************************************************************)
MaxBehindTop == 2

TopTitles == << <<"a", "b">>, <<"c", "d">>, <<"e", "f">>, <<"g", "h">>, <<"i", "j">> >>

BehindTitles == << <<"k", "l", "k", "l">>, <<"m", "n", "m", "n">> >>

\* What the events behind the top five are: their categories as entity
\* resolution left them, the tier of their source, and whether the pipeline
\* pass had summarized them.
BehindKinds ==
    [ categories : { {"SDK releases/updates"}, {"New foundation model release"},
                     {"Pricing & billing changes"},
                     {"Security incidents/vuln disclosures"} },
      trust_tier : {1, 4},
      summarized : BOOLEAN ]

ClientEvent(id, title, cats, tier, summarized) ==
    [UpdateEvent(id, title, cats, tier)
        EXCEPT !.impact_score = 10000 - ScoreStep * id,
               !.company_slug = "x",
               !.created_at = cutoff_start(1) + Hours(1),
               !.published_at = cutoff_start(1) + Hours(1),
               !.summary_short = IF summarized THEN <<"s">> ELSE NoneText]

\* What the model answers for an event behind the top five.
ClientReplies ==
    { APIError,
      Response(<<"{", "title_str", "}">>),
      Response(<<"{", "tags_pricing", "}">>),
      Response(<<"{", "why_str", ",", "tags_str", "}">>) }

InitClient ==
    /\ stage = "idle"
    /\ \E kinds \in Lists(BehindKinds, MaxBehindTop) :
          /\ kinds # <<>>
          /\ evs = [i \in 1..(5 + Len(kinds)) |->
                      IF i <= 5
                      THEN ClientEvent(i, TopTitles[i], {}, 1, TRUE)
                      ELSE ClientEvent(i, BehindTitles[i - 5], kinds[i - 5].categories,
                                       kinds[i - 5].trust_tier, kinds[i - 5].summarized)]
    /\ sections = DigestSections
    /\ appended = 0
    /\ input = <<>>
    /\ now = cutoff_start(1) + Hours(2)
    /\ clusters = <<>>
    /\ raw_items = <<>>
    /\ digests = <<>>
    /\ jobs = IdleJobs
    /\ outbox = <<>>
    /\ snapshots = <<>>

\* sections.top5 + sections.developer + sections.models + sections.pricing
\* + sections.incidents, as events.
all_events(events, secs) ==
    LET ids == secs.top5 \o secs.developer \o secs.models \o secs.pricing
               \o secs.incidents
    IN  [k \in 1..Len(ids) |->
            events[CHOOSE m \in 1..Len(events) : events[m].event_id = ids[k]]]

\* generate_digest(target_date, db, anthropic_client) from the allocation
\* on: the call to the client for the event with id n ends as replies[n].
digest_summarized(target_date, db, reclustered, events, replies) ==
    TheOnly({
        TheOnly({
            IF done.raised
            THEN [outcome |-> "raised", sections |-> secs,
                  db |-> [reclustered EXCEPT !.evs = write_back(@, done.events)]]
            ELSE store_digest(target_date, db, reclustered,
                              write_back(events, done.events), secs) :
            done \in {TheOnly({ summarize_batch(listed,
                                   [k \in 1..Len(listed) |-> replies[listed[k].event_id]]) :
                                listed \in {all_events(events, secs)} })} }) :
        secs \in {allocate_sections(events)} })

generate_digest_client(target_date, db, replies) ==
    TheOnly({
        IF found = <<>>
        THEN [outcome |-> "none", db |-> db, sections |-> DigestSections]
        ELSE TheOnly({
                TheOnly({
                    IF events = <<>>
                    THEN [outcome |-> "none", db |-> db, sections |-> DigestSections]
                    ELSE digest_summarized(target_date, db,
                            [db EXCEPT !.evs = write_back(@, clustered.events),
                                       !.clusters = clustered.rows],
                            events, replies) :
                    events \in {SelectSeq(_dedupe_events(clustered.events),
                                          LAMBDA e : ~_is_noise_event(e))} }) :
                clustered \in {soft_dedupe_and_cluster(found, db.clusters)} }) :
        found \in {window_events(target_date, db)} })

\* digest_job() with settings.anthropic_api_key set, today = target_date.
DigestJobClient(target_date, replies) ==
    /\ stage = "idle"
    /\ \E g \in {generate_digest_client(target_date, Tables, replies)} :
        \E persisted \in {session_closed(g, Tables)} :
          /\ input' = replies
          /\ evs' = persisted.evs
          /\ clusters' = persisted.clusters
          /\ digests' = persisted.digests
          /\ sections' = g.sections
          /\ stage' = "digest_" \o g.outcome
    /\ UNCHANGED <<appended, now, raw_items, jobs, outbox, snapshots>>

NextClient ==
    \E behind \in [6..(5 + MaxBehindTop) -> ClientReplies] :
        DigestJobClient(1, [n \in 1..(5 + MaxBehindTop) |->
                               IF n <= 5 THEN APIError ELSE behind[n]])

SpecClient == InitClient /\ [][NextClient]_vars

\* The stored event with the id.
StoredEvent(id) == evs[CHOOSE e \in 1..Len(evs) : evs[e].event_id = id]

\* C28: in every stored digest, each event in the developer, models, pricing
\* or incidents section carries, as stored at commit, at least one category
\* of that section's category set, and each event in radar has trust tier 4.
C28_SectionsMatchStoredCategories ==
    \A d \in 1..Len(digests) :
       LET secs == digests[d].sections
           Carries(ids, cats) ==
               \A k \in 1..Len(ids) : StoredEvent(ids[k]).categories \cap cats # {}
       IN  /\ Carries(secs.developer, SECTION_DEVELOPER)
           /\ Carries(secs.models, SECTION_MODELS)
           /\ Carries(secs.pricing, SECTION_PRICING)
           /\ Carries(secs.incidents, SECTION_INCIDENTS)
           /\ \A k \in 1..Len(secs.radar) : StoredEvent(secs.radar[k]).trust_tier = 4


\* The target dates whose window holds the instant: generate_digest takes the
\* events with cutoff_start <= created_at <= cutoff_end.
WindowDates == 0..3

WindowsOf(t) ==
    {d \in WindowDates : t >= cutoff_start(d) /\ t <= cutoff_end(d)}

\* C29: the digest windows of consecutive target dates partition the
\* timeline: the creation timestamp of every event, at the resolution the
\* store keeps, falls inside the window of exactly one target date.
C29_WindowsPartition ==
    \A e \in 1..Len(evs) : Cardinality(WindowsOf(evs[e].created_at)) = 1


(***************************************************************************)
(* pipeline_job run again and again by its interval trigger (jobs.py       *)
(* 240-247) on a store that receives no new raw items: the raw_items table *)
(* holds, per source, none, a few, or around UnprocessedLimit rows, some   *)
(* rows of the later sources flagged is_duplicate, and no events.          *)
(***************************************************************************)
MaxOverLimit == 1

DrainCounts ==
    {0, 1, 2, UnprocessedLimit - 1, UnprocessedLimit, UnprocessedLimit + MaxOverLimit}

\* The k-th row of the table, fetched from the source.
DrainRow(k, source_id, flagged) ==
    [RawItem(source_id, RawItemData("e" \o ToString(k), <<"u", ToString(k)>>,
                                    <<"a", "b", "a", "b">>, <<>>))
        EXCEPT !.raw_item_id = k,
               !.is_duplicate = flagged /\ source_id # 1 /\ k % 3 = 0]

InitDrain ==
    /\ stage = "idle"
    /\ evs = <<>>
    /\ sections = DigestSections
    /\ appended = 0
    /\ input = NoneId
    /\ now = ClockTimes[1]
    /\ clusters = <<>>
    /\ \E n1 \in DrainCounts, n2 \in DrainCounts \ {2, UnprocessedLimit - 1},
          n3 \in {0, 2}, flagged \in BOOLEAN :
          raw_items = [k \in 1..(n1 + n2 + n3) |->
                          DrainRow(k, IF k <= n1 THEN 1
                                      ELSE IF k <= n1 + n2 THEN 2 ELSE 3,
                                   flagged)]
    /\ digests = <<>>
    /\ jobs = IdleJobs
    /\ outbox = <<>>
    /\ snapshots = <<>>

NextDrain == PipelineJob

SpecDrain == InitDrain /\ [][NextDrain]_vars /\ WF_vars(NextDrain)

\* Every non-duplicate RawItem of every enabled source has an Event.
Drained ==
    \A r \in 1..Len(raw_items) :
        (/\ \E s \in 1..Len(Sources) :
               Sources[s].source_id = raw_items[r].source_id /\ Sources[s].enabled
         /\ ~raw_items[r].is_duplicate)
        => \E e \in 1..Len(evs) : evs[e].raw_item_id = raw_items[r].raw_item_id

\* C30: if no new raw items arrive and no stage raises, repeated
\* pipeline_job runs eventually give every non-duplicate RawItem of every
\* enabled source an Event, each run handling at most UnprocessedLimit raw
\* items per source, and after that a further run creates no events.
C30_PipelineDrains ==
    /\ <>[]Drained
    /\ [][\A s \in 1..Len(Sources) :
            Cardinality({e \in 1..Len(evs') : evs'[e].source_id = Sources[s].source_id})
               <= Cardinality({e \in 1..Len(evs) : evs[e].source_id = Sources[s].source_id})
                  + UnprocessedLimit]_vars
    /\ [][Drained => evs' = evs]_vars

\* The store is drained after more than one run: a source has more events
\* than one run handles, while a flagged row and a row of a disabled source
\* are left without an event.
C30_Witness ==
    /\ stage = "pipeline_committed"
    /\ Drained
    /\ Cardinality({e \in 1..Len(evs) : evs[e].source_id = 1}) > UnprocessedLimit
    /\ \E r \in 1..Len(raw_items) :
          /\ raw_items[r].is_duplicate
          /\ ~\E e \in 1..Len(evs) : evs[e].raw_item_id = r
    /\ \E r \in 1..Len(raw_items) :
          /\ raw_items[r].source_id = 3
          /\ ~\E e \in 1..Len(evs) : evs[e].raw_item_id = r

=============================================================================
